---- MODULE Spec2Model ----
(***************************************************************************)
(* Connect 4 on Steroids: the game-event generator of the RabbitMQ         *)
(* simulation (createGameRoom, getNextPlayer, makeMove, usePowerUp,        *)
(* triggerRandomEvent, checkGameOver, the simulateGameEvents loop) and the *)
(* React client hook useGame that consumes the broadcast messages.         *)
(***************************************************************************)
EXTENDS Integers, Sequences, FiniteSets, TLC

\* ------------------------------------------------------------------ bounds
\* createGameRoom is called with 2..4 players; the model seats 2..MaxPlayers.
MaxPlayers == 2
\* game.eventCount is capped: no event is generated once it reaches MaxEvents.
MaxEvents == 7

\* -------------------------------------------------------- program constants
NumCols == 7
MaxRows == 6
GameOverEventCount == 30

Cols == 0 .. (NumCols - 1)
\* The random column choices (Math.floor(Math.random() * 7)) are drawn from
\* two of the seven columns; the other five stay empty.
InputCols == { 0, 1 }

\* the power-ups the players pick in their browsers, and the target columns
\* they pick for them (first and second column)
InputPowerUps == { "double_drop", "column_bomb", "gravity_flip" }
InputTarget == << 0, 1 >>

\* JavaScript null / a present value, as a sequence of length 0 / 1.
Null == << >>
Some(x) == << x >>
IsNull(o) == o = << >>

PLAYER_IDS == << "player1", "player2", "player3", "player4" >>
POWER_UP_TYPES == << "double_drop", "column_bomb", "gravity_flip", "undo_move", "column_block" >>
\* RANDOM_EVENTS: id and duration in turns
RANDOM_EVENTS ==
  << [id |-> "gravity_reversal", duration |-> 3],
     [id |-> "column_shuffle", duration |-> 2],
     [id |-> "power_surge", duration |-> 1],
     [id |-> "time_warp", duration |-> 4] >>
WIN_TYPES == << "horizontal", "vertical", "diagonal_rising", "diagonal_falling" >>
\* checkGameOver draws startCol from 0..3 and startRow from 0..2; the model
\* draws the two extreme start cells
StartCells == { << 0, 0 >>, << 3, 2 >> }
\* triggerRandomEvent keeps each column with probability 0.7; the model draws
\* no column, one column or both input columns
AffectedChoices == { << >>, << 0 >>, << 0, 1 >> }

Range(s) == { s[i] : i \in 1 .. Len(s) }

VARIABLES
  game,        \* the game room object of activeGames under observation
  clockLate,   \* Date.now() - game.startTime > 5 minutes
  rooms,       \* number of rooms createGameRoom has put in activeGames
  last,        \* the last call of the event loop on this room and what it returned
  winRecord,   \* the last published game_over message of this room (Null if none)
  client,      \* per player: the useGame state of that player's browser
  socketOpen,  \* per player: webSocketService.isConnected()
  toServer,    \* per player: messages sent over the socket, not yet handled
  toClient,    \* per player: messages pushed to the player, not yet dispatched
  inventory,   \* per player: the coordinator's power-up inventory
  race,        \* observation of two moves submitted at the same instant
  clicks,      \* number of clicks of the players so far
  turnStart,   \* the room's turn_start_time, as the number of timer resets
  fired,       \* turn timeouts that fired and wait for the room's lock
  timeouts,    \* number of turn timeouts fired so far
  session,     \* per player: "first", "lost", "reconnected" or "synced" connection
  closes,      \* number of connections dropped so far
  eventCounter, \* eventCounter % 10 of the demo's generateEvent
  room,        \* the coordinator's room: max_players, is_active, players, current_turn, board
  lobby,       \* per browser: the LobbyPage state (selectedRoom, selectedColor, modal)
  hook,        \* per browser: the useGame state of its GamePage (Null on the lobby page)
  inbox,       \* per browser: room messages pushed to its GamePage, not yet dispatched
  joins,       \* number of join requests made
  leaves,      \* number of players that left the game page
  ws,          \* the shared webSocketService, its sockets and reconnect timers
  api          \* a getPlayerPowerUps call: what the network does and what it returned

simVars == << clockLate, rooms, winRecord >>
timerVars == << turnStart, fired, timeouts >>
connVars == << session, closes >>
otherVars == << timerVars, connVars >>
demoVars == << eventCounter >>
lobbyVars == << room, lobby, hook, inbox, joins, leaves >>
wsVars == << ws, api >>
auxVars == << demoVars, lobbyVars, wsVars >>
coordVars == << client, socketOpen, toServer, toClient, inventory, race, clicks,
                otherVars >>
netVars == << coordVars, auxVars >>
vars == << game, clockLate, rooms, last, winRecord,
           client, socketOpen, toServer, toClient, inventory, race, clicks,
           turnStart, fired, timeouts, session, closes, eventCounter,
           room, lobby, hook, inbox, joins, leaves, ws, api >>

\* ------------------------------------------------------------ createGameRoom
createGameRoom(numPlayers) ==
  [ players     |-> [ i \in 1 .. numPlayers |-> PLAYER_IDS[i] ],
    currentTurn |-> PLAYER_IDS[1],
    isActive    |-> TRUE,
    board       |-> [ c \in Cols |-> << >> ],
    eventCount  |-> 0,
    gameOver    |-> FALSE ]

\* Array.prototype.findIndex: 0-based index of the first match, -1 if none
findIndex(players, id) ==
  IF \E i \in 1 .. Len(players) : players[i] = id
  THEN (CHOOSE i \in 1 .. Len(players) :
          /\ players[i] = id
          /\ \A j \in 1 .. (i - 1) : players[j] # id) - 1
  ELSE -1

\* ------------------------------------------------------------- getNextPlayer
getNextPlayerStay(g) == g.currentTurn

getNextPlayer(g) ==
  LET currentIndex == findIndex(g.players, g.currentTurn)
      nextIndex == (currentIndex + 1) % Len(g.players)
  IN g.players[nextIndex + 1]

\* ------------------------------------------------------------------ makeMove
\* returns the updated game and the result ({column,row} or null)
makeMoveNoCapacityCheck(g, playerId, column) ==
  LET row == Len(g.board[column])
      g1 == [ g EXCEPT !.board[column] = Append(@, playerId) ]
      g2 == [ g1 EXCEPT !.currentTurn = getNextPlayer(g1) ]
  IN [ game |-> [ g2 EXCEPT !.eventCount = @ + 1 ],
       result |-> Some([ column |-> column, row |-> row ]) ]

makeMoveAdvanceFirst(g, playerId, column) ==
  LET row == Len(g.board[column])
      g0 == [ g EXCEPT !.currentTurn = getNextPlayer(g) ]
  IN IF row >= MaxRows
     THEN [ game |-> g0, result |-> Null ]
     ELSE [ game |-> [ g0 EXCEPT !.board[column] = Append(@, playerId),
                                 !.eventCount = @ + 1 ],
            result |-> Some([ column |-> column, row |-> row ]) ]

makeMoveRowOneBased(g, playerId, column) ==
  LET row == Len(g.board[column])
  IN IF row >= MaxRows
     THEN [ game |-> g, result |-> Null ]
     ELSE LET g1 == [ g EXCEPT !.board[column] = Append(@, playerId) ]
              g2 == [ g1 EXCEPT !.currentTurn = getNextPlayer(g1) ]
          IN [ game |-> [ g2 EXCEPT !.eventCount = @ + 1 ],
               result |-> Some([ column |-> column, row |-> row + 1 ]) ]

makeMove(g, playerId, column) ==
  LET row == Len(g.board[column])
  IN IF row >= MaxRows
     THEN [ game |-> g, result |-> Null ]
     ELSE LET g1 == [ g EXCEPT !.board[column] = Append(@, playerId) ]
              g2 == [ g1 EXCEPT !.currentTurn = getNextPlayer(g1) ]
          IN [ game |-> [ g2 EXCEPT !.eventCount = @ + 1 ],
               result |-> Some([ column |-> column, row |-> row ]) ]

\* ---------------------------------------------------------------- usePowerUp
\* effect objects, with an absent property as FALSE / Null
NoEffect ==
  [ drop1 |-> Null, drop2 |-> Null, hasDrops |-> FALSE, bombed |-> FALSE,
    flipped |-> FALSE, undone |-> FALSE, blocked |-> FALSE, column |-> Null ]

\* powerUpId, targetColumn, col1, col2 and randomCol are the Math.random() draws
usePowerUpUndoBottom(g, playerId, powerUpId, targetColumn, col1, col2, randomCol) ==
  LET r ==
        CASE powerUpId = "double_drop" ->
               LET m1 == makeMove(g, playerId, col1)
                   m2 == makeMove(m1.game, playerId, col2)
               IN [ game |-> m2.game,
                    effect |-> [ NoEffect EXCEPT !.drop1 = m1.result,
                                                 !.drop2 = m2.result,
                                                 !.hasDrops = TRUE ] ]
          [] powerUpId = "column_bomb" ->
               [ game |-> [ g EXCEPT !.board[targetColumn] = << >> ],
                 effect |-> [ NoEffect EXCEPT !.bombed = TRUE,
                                              !.column = Some(targetColumn) ] ]
          [] powerUpId = "gravity_flip" ->
               [ game |-> g, effect |-> [ NoEffect EXCEPT !.flipped = TRUE ] ]
          [] powerUpId = "undo_move" ->
               IF Len(g.board[randomCol]) > 0
               THEN [ game |-> [ g EXCEPT !.board[randomCol] =
                                    Tail(@) ],
                      effect |-> [ NoEffect EXCEPT !.undone = TRUE,
                                                   !.column = Some(randomCol) ] ]
               ELSE [ game |-> g, effect |-> NoEffect ]
          [] powerUpId = "column_block" ->
               [ game |-> g,
                 effect |-> [ NoEffect EXCEPT !.blocked = TRUE,
                                              !.column = Some(targetColumn) ] ]
  IN [ game |-> [ r.game EXCEPT !.eventCount = @ + 1 ],
       powerUpId |-> powerUpId,
       effect |-> r.effect ]

usePowerUp(g, playerId, powerUpId, targetColumn, col1, col2, randomCol) ==
  LET r ==
        CASE powerUpId = "double_drop" ->
               LET m1 == makeMove(g, playerId, col1)
                   m2 == makeMove(m1.game, playerId, col2)
               IN [ game |-> m2.game,
                    effect |-> [ NoEffect EXCEPT !.drop1 = m1.result,
                                                 !.drop2 = m2.result,
                                                 !.hasDrops = TRUE ] ]
          [] powerUpId = "column_bomb" ->
               [ game |-> [ g EXCEPT !.board[targetColumn] = << >> ],
                 effect |-> [ NoEffect EXCEPT !.bombed = TRUE,
                                              !.column = Some(targetColumn) ] ]
          [] powerUpId = "gravity_flip" ->
               [ game |-> g, effect |-> [ NoEffect EXCEPT !.flipped = TRUE ] ]
          [] powerUpId = "undo_move" ->
               IF Len(g.board[randomCol]) > 0
               THEN [ game |-> [ g EXCEPT !.board[randomCol] =
                                    SubSeq(@, 1, Len(@) - 1) ],
                      effect |-> [ NoEffect EXCEPT !.undone = TRUE,
                                                   !.column = Some(randomCol) ] ]
               ELSE [ game |-> g, effect |-> NoEffect ]
          [] powerUpId = "column_block" ->
               [ game |-> g,
                 effect |-> [ NoEffect EXCEPT !.blocked = TRUE,
                                              !.column = Some(targetColumn) ] ]
  IN [ game |-> [ r.game EXCEPT !.eventCount = @ + 1 ],
       powerUpId |-> powerUpId,
       effect |-> r.effect ]

\* -------------------------------------------------------- triggerRandomEvent
triggerRandomEvent(g, eventIdx, affectedColumns) ==
  [ game |-> [ g EXCEPT !.eventCount = @ + 1 ],
    event |-> RANDOM_EVENTS[eventIdx],
    effectResult |-> [ affected_columns |-> affectedColumns ] ]

\* ------------------------------------------------------------- checkGameOver
\* winnerIdx, winTypeIdx, startCol and startRow are the Math.random() draws
checkGameOver(g, late, winnerIdx, winTypeIdx, startCol, startRow) ==
  IF g.eventCount > GameOverEventCount \/ late
  THEN LET winType == WIN_TYPES[winTypeIdx]
           pos(i) ==
             IF winType = "horizontal" THEN << startCol + i, startRow >>
             ELSE IF winType = "vertical" THEN << startCol, startRow + i >>
             ELSE IF winType = "diagonal_rising"
                  THEN << startCol + i, startRow + 3 - i >>
             ELSE << startCol + i, startRow + i >>
       IN [ game |-> [ g EXCEPT !.gameOver = TRUE ],
            result |-> Some([ winner |-> g.players[winnerIdx],
                              winType |-> winType,
                              positions |-> [ k \in 1 .. 4 |-> pos(k - 1) ] ]) ]
  ELSE [ game |-> g, result |-> Null ]

\* the outcome of checkGameOver that every draw agrees on when it returns null
GameContinues(g, late) == ~ (g.eventCount > GameOverEventCount \/ late)

\* ------------------------------------------------------- getRandomActiveGame
getRandomActiveGameNoFilter(games) == games

\* the rooms of activeGames the event loop may pick
getRandomActiveGame(games) == { g \in games : ~ g.gameOver }

\* ------------------------------------------------------------------- actions
NoCall ==
  [ kind |-> "none", player |-> "", column |-> 0, result |-> Null,
    powerUpId |-> "", effect |-> NoEffect, event |-> "", affected |-> << >>,
    sent |-> FALSE, error |-> "" ]

NoRace == [ holder |-> "", outcome |-> << >> ]

\* the webSocketService singleton as constructed, before any connect();
\* sockets are the WebSocket objects it created, timers the reconnect
\* timeouts it has pending, mounted whether a useGame hook is using it
maxReconnectAttempts == 5

WebSocketService ==
  [ socket |-> 0,
    sockets |-> << >>,
    reconnectAttempts |-> 0,
    playerId |-> Null,
    autoReconnect |-> TRUE,
    isReconnecting |-> FALSE,
    timers |-> 0,
    mounted |-> FALSE ]

\* no call of the REST client is under way
NoRequest == [ fetch |-> "", status |-> 0, detail |-> Null, body |-> Null,
               result |-> Null ]

\* the event generator runs without browsers: nothing is connected
NetIdle ==
  /\ client = << >>
  /\ socketOpen = << >>
  /\ toServer = << >>
  /\ toClient = << >>
  /\ inventory = << >>
  /\ race = NoRace
  /\ clicks = 0
  /\ turnStart = 0
  /\ fired = {}
  /\ timeouts = 0
  /\ session = << >>
  /\ closes = 0
  /\ eventCounter = 0
  /\ room = << >>
  /\ lobby = << >>
  /\ hook = << >>
  /\ inbox = << >>
  /\ joins = 0
  /\ leaves = 0
  /\ ws = WebSocketService
  /\ api = NoRequest

Init ==
  /\ \E n \in 2 .. MaxPlayers : game = createGameRoom(n)
  /\ clockLate = FALSE
  /\ rooms = 1
  /\ last = NoCall
  /\ winRecord = Null
  /\ NetIdle

\* time passes: more than 5 minutes since game.startTime
Tick ==
  /\ ~ clockLate
  /\ clockLate' = TRUE
  /\ UNCHANGED << game, rooms, last, winRecord, netVars >>

\* simulateGameEvents: the loop picks this room and checkGameOver ends it
SimGameOver ==
  /\ game \in getRandomActiveGame({ game })
  /\ \E winnerIdx \in 1 .. Len(game.players), winTypeIdx \in 1 .. Len(WIN_TYPES),
        start \in StartCells :
       LET r == checkGameOver(game, clockLate, winnerIdx, winTypeIdx, start[1], start[2])
       IN /\ ~ IsNull(r.result)
          /\ game' = r.game
          /\ winRecord' = r.result
          /\ last' = [ NoCall EXCEPT !.kind = "game_over" ]
  /\ UNCHANGED << clockLate, rooms, netVars >>

\* simulateGameEvents: player move branch (eventType < 0.6)
SimMove ==
  /\ game \in getRandomActiveGame({ game })
  /\ GameContinues(game, clockLate)
  /\ game.eventCount < MaxEvents
  /\ \E column \in InputCols :
       LET currentPlayer == game.currentTurn
           m == makeMove(game, currentPlayer, column)
       IN /\ game' = m.game
          /\ last' = [ NoCall EXCEPT !.kind = "move", !.player = currentPlayer,
                                     !.column = column, !.result = m.result ]
  /\ UNCHANGED << clockLate, rooms, winRecord, netVars >>

\* simulateGameEvents: power-up branch (eventType < 0.8)
SimPowerUp ==
  /\ game \in getRandomActiveGame({ game })
  /\ GameContinues(game, clockLate)
  /\ game.eventCount < MaxEvents
  /\ \E k \in 1 .. Len(POWER_UP_TYPES), a \in InputCols, b \in InputCols :
       \* each kind reads col1 and col2, or targetColumn, or randomCol alone,
       \* so two draws cover every outcome of the four
       LET currentPlayer == game.currentTurn
           p == usePowerUp(game, currentPlayer, POWER_UP_TYPES[k], a, a, b, a)
       IN /\ game' = p.game
          /\ last' = [ NoCall EXCEPT !.kind = "power_up", !.player = currentPlayer,
                                     !.powerUpId = p.powerUpId, !.effect = p.effect ]
  /\ UNCHANGED << clockLate, rooms, winRecord, netVars >>

\* simulateGameEvents: random event branch
SimRandomEvent ==
  /\ game \in getRandomActiveGame({ game })
  /\ GameContinues(game, clockLate)
  /\ game.eventCount < MaxEvents
  /\ \E eventIdx \in 1 .. Len(RANDOM_EVENTS), affectedColumns \in AffectedChoices :
       LET t == triggerRandomEvent(game, eventIdx, affectedColumns)
       IN /\ game' = t.game
          /\ last' = [ NoCall EXCEPT !.kind = "random_event", !.event = t.event.id,
                                     !.affected = t.effectResult.affected_columns ]
  /\ UNCHANGED << clockLate, rooms, winRecord, netVars >>

\* getRandomActiveGame finds no active room and creates another one; the new
\* room is a different object and this room is not touched. A replacement room
\* stays active, so this happens once.
SimNewRoom ==
  /\ getRandomActiveGame({ game }) = {}
  /\ rooms = 1
  /\ rooms' = rooms + 1
  /\ last' = NoCall
  /\ UNCHANGED << game, clockLate, winRecord, netVars >>

Next ==
  \/ Tick
  \/ SimGameOver
  \/ SimMove
  \/ SimPowerUp
  \/ SimRandomEvent
  \/ SimNewRoom

Spec == Init /\ [][Next]_vars

\* ============================================ browsers and the coordinator
\* bound of the specification with browsers: the players click (a column or
\* a power-up) at most MaxClicks times in all
MaxClicks == 3

\* the default inventory of useGame: every power-up kind with 1 remaining use
DefaultUses == 1

\* column keys of the client board: column.toString() and parseInt(column)
COL_KEYS == << "0", "1", "2", "3", "4", "5", "6" >>
toString(c) == COL_KEYS[c + 1]
parseInt(k) == (CHOOSE i \in 1 .. Len(COL_KEYS) : COL_KEYS[i] = k) - 1

NoMsg ==
  [ type |-> "", player_id |-> "", column |-> 0, row |-> 0, next_turn |-> "",
    power_up_id |-> "", remaining_uses |-> 0, effect |-> NoEffect,
    message |-> "", target_data |-> << >>,
    event |-> Null, effect_result |-> [ affected_columns |-> << >> ] ]

\* useGame: the state after connect, game_started and initializeBoard
clientStarted(playerId, currentTurn) ==
  [ isMyTurn |-> (currentTurn = playerId),
    isConnected |-> TRUE,
    error |-> Null,
    board |-> [ k \in Range(COL_KEYS) |-> << >> ],
    powerUps |-> [ k \in Range(POWER_UP_TYPES) |-> DefaultUses ],
    activeEvents |-> << >>,
    isGravityFlipped |-> TRUE ]

\* WebSocketService.send: TRUE iff the socket is open
send(open, message) == open

\* ------------------------------------------------------- useGame.makeMove
useGame_makeMoveNoTurnCheck(st, open, column) ==
  IF ~ st.isConnected
  THEN [ state |-> [ st EXCEPT !.error = Some("You are disconnected from the game server. Please wait for reconnection.") ],
         sent |-> Null, ret |-> FALSE ]
  ELSE IF send(open, [ NoMsg EXCEPT !.type = "move", !.column = column ])
  THEN [ state |-> st,
         sent |-> Some([ NoMsg EXCEPT !.type = "move", !.column = column ]),
         ret |-> TRUE ]
  ELSE [ state |-> [ st EXCEPT !.error = Some("Failed to send move. Please try again.") ],
         sent |-> Null, ret |-> FALSE ]

useGame_makeMoveGivesUpTurn(st, open, column) ==
  IF ~ st.isMyTurn
  THEN [ state |-> [ st EXCEPT !.error = Some("It's not your turn yet!") ],
         sent |-> Null, ret |-> FALSE ]
  ELSE IF ~ st.isConnected
  THEN [ state |-> [ st EXCEPT !.error = Some("You are disconnected from the game server. Please wait for reconnection."),
                               !.isMyTurn = FALSE ],
         sent |-> Null, ret |-> FALSE ]
  ELSE IF send(open, [ NoMsg EXCEPT !.type = "move", !.column = column ])
  THEN [ state |-> st,
         sent |-> Some([ NoMsg EXCEPT !.type = "move", !.column = column ]),
         ret |-> TRUE ]
  ELSE [ state |-> [ st EXCEPT !.error = Some("Failed to send move. Please try again."),
                               !.isMyTurn = FALSE ],
         sent |-> Null, ret |-> FALSE ]

useGame_makeMove(st, open, column) ==
  IF ~ st.isMyTurn
  THEN [ state |-> [ st EXCEPT !.error = Some("It's not your turn yet!") ],
         sent |-> Null, ret |-> FALSE ]
  ELSE IF ~ st.isConnected
  THEN [ state |-> [ st EXCEPT !.error = Some("You are disconnected from the game server. Please wait for reconnection.") ],
         sent |-> Null, ret |-> FALSE ]
  ELSE IF send(open, [ NoMsg EXCEPT !.type = "move", !.column = column ])
  THEN [ state |-> st,
         sent |-> Some([ NoMsg EXCEPT !.type = "move", !.column = column ]),
         ret |-> TRUE ]
  ELSE [ state |-> [ st EXCEPT !.error = Some("Failed to send move. Please try again.") ],
         sent |-> Null, ret |-> FALSE ]

\* ------------------------------------------------------ useGame.usePowerUp
useGame_usePowerUp(st, open, powerUpId, targetData) ==
  LET msg == [ NoMsg EXCEPT !.type = "power_up", !.power_up_id = powerUpId,
                            !.target_data = targetData ]
  IN IF powerUpId \notin DOMAIN st.powerUps \/ st.powerUps[powerUpId] <= 0
     THEN [ state |-> [ st EXCEPT !.error = Some("You don't have any uses left for this power-up!") ],
            sent |-> Null, ret |-> FALSE ]
     ELSE IF ~ st.isMyTurn
     THEN [ state |-> [ st EXCEPT !.error = Some("You can only use power-ups during your turn!") ],
            sent |-> Null, ret |-> FALSE ]
     ELSE IF ~ st.isConnected
     THEN [ state |-> [ st EXCEPT !.error = Some("You are disconnected from the game server. Please wait for reconnection.") ],
            sent |-> Null, ret |-> FALSE ]
     ELSE IF send(open, msg)
     THEN [ state |-> st, sent |-> Some(msg), ret |-> TRUE ]
     ELSE [ state |-> [ st EXCEPT !.error = Some("Failed to use power-up. Please try again.") ],
            sent |-> Null, ret |-> FALSE ]

\* ------------------------------------------- useGame message handlers
on_move_made(st, playerId, m) ==
  LET column == toString(m.column)
  IN [ st EXCEPT
         !.board[column] = Append(@, [ playerId |-> m.player_id, row |-> m.row,
                                       column |-> parseInt(column) ]),
         !.isMyTurn = (m.next_turn = playerId),
         !.error = Null ]

on_power_up_usedIgnoresBomb(st, playerId, m) ==
  LET st1 == IF m.player_id = playerId /\ m.power_up_id \in DOMAIN st.powerUps
             THEN [ st EXCEPT !.powerUps[m.power_up_id] = m.remaining_uses ]
             ELSE st
      effect == m.effect
      cell(d) == [ playerId |-> m.player_id, row |-> d[1].row, column |-> d[1].column ]
      board1 ==
        IF ~ IsNull(effect.drop1) /\ ~ IsNull(effect.drop2)
        THEN LET column1 == toString(effect.drop1[1].column)
                 column2 == toString(effect.drop2[1].column)
                 b1 == [ st.board EXCEPT ![column1] = Append(@, cell(effect.drop1)) ]
             IN [ b1 EXCEPT ![column2] = Append(@, cell(effect.drop2)) ]
        ELSE st.board
      flip == ( ~ (~ IsNull(effect.drop1) /\ ~ IsNull(effect.drop2))
                /\ ~ effect.bombed /\ effect.flipped
                /\ m.power_up_id = "gravity_flip" )
  IN [ st1 EXCEPT !.board = board1,
                  !.isGravityFlipped = IF flip THEN ~ @ ELSE @,
                  !.error = Null ]

on_power_up_usedSetsNormal(st, playerId, m) ==
  LET st1 == IF m.player_id = playerId /\ m.power_up_id \in DOMAIN st.powerUps
             THEN [ st EXCEPT !.powerUps[m.power_up_id] = m.remaining_uses ]
             ELSE st
      effect == m.effect
      cell(d) == [ playerId |-> m.player_id, row |-> d[1].row, column |-> d[1].column ]
      board1 ==
        IF ~ IsNull(effect.drop1) /\ ~ IsNull(effect.drop2)
        THEN LET column1 == toString(effect.drop1[1].column)
                 column2 == toString(effect.drop2[1].column)
                 b1 == [ st.board EXCEPT ![column1] = Append(@, cell(effect.drop1)) ]
             IN [ b1 EXCEPT ![column2] = Append(@, cell(effect.drop2)) ]
        ELSE IF effect.bombed
        THEN [ st.board EXCEPT ![toString(effect.column[1])] = << >> ]
        ELSE st.board
      flip == ( ~ (~ IsNull(effect.drop1) /\ ~ IsNull(effect.drop2))
                /\ ~ effect.bombed /\ effect.flipped
                /\ m.power_up_id = "gravity_flip" )
  IN [ st1 EXCEPT !.board = board1,
                  !.isGravityFlipped = IF flip THEN FALSE ELSE @,
                  !.error = Null ]

on_power_up_used(st, playerId, m) ==
  LET st1 == IF m.player_id = playerId /\ m.power_up_id \in DOMAIN st.powerUps
             THEN [ st EXCEPT !.powerUps[m.power_up_id] = m.remaining_uses ]
             ELSE st
      effect == m.effect
      cell(d) == [ playerId |-> m.player_id, row |-> d[1].row, column |-> d[1].column ]
      board1 ==
        IF ~ IsNull(effect.drop1) /\ ~ IsNull(effect.drop2)
        THEN LET column1 == toString(effect.drop1[1].column)
                 column2 == toString(effect.drop2[1].column)
                 b1 == [ st.board EXCEPT ![column1] = Append(@, cell(effect.drop1)) ]
             IN [ b1 EXCEPT ![column2] = Append(@, cell(effect.drop2)) ]
        ELSE IF effect.bombed
        THEN [ st.board EXCEPT ![toString(effect.column[1])] = << >> ]
        ELSE st.board
      flip == ( ~ (~ IsNull(effect.drop1) /\ ~ IsNull(effect.drop2))
                /\ ~ effect.bombed /\ effect.flipped
                /\ m.power_up_id = "gravity_flip" )
  IN [ st1 EXCEPT !.board = board1,
                  !.isGravityFlipped = IF flip THEN ~ @ ELSE @,
                  !.error = Null ]

\* the random_event handler: the event joins the list of active events, the
\* board is copied as it is
on_random_eventClearsAffected(st, m) ==
  [ st EXCEPT
      !.activeEvents = Append(@, [ id |-> m.event[1].id,
                                   duration |-> m.event[1].duration,
                                   activeUntil |-> Len(st.activeEvents) + m.event[1].duration ]),
      !.board = [ k \in DOMAIN st.board |->
                    IF \E i \in 1 .. Len(m.effect_result.affected_columns) :
                         toString(m.effect_result.affected_columns[i]) = k
                    THEN << >> ELSE st.board[k] ] ]

on_random_event(st, m) ==
  [ st EXCEPT
      !.activeEvents = Append(@, [ id |-> m.event[1].id,
                                   duration |-> m.event[1].duration,
                                   activeUntil |-> Len(st.activeEvents) + m.event[1].duration ]) ]

\* the turn_timeout handler
on_turn_timeoutOfSender(st, playerId, m) ==
  [ st EXCEPT !.isMyTurn = (m.player_id = playerId),
              !.error = Some(IF m.player_id = playerId THEN "Your turn timed out!"
                             ELSE "Opponent's turn timed out!") ]

on_turn_timeoutSpendsPowerUps(st, playerId, m) ==
  [ st EXCEPT !.isMyTurn = (m.next_turn = playerId),
              !.powerUps = [ k \in DOMAIN st.powerUps |-> 0 ],
              !.error = Some(IF m.player_id = playerId THEN "Your turn timed out!"
                             ELSE "Opponent's turn timed out!") ]

on_turn_timeout(st, playerId, m) ==
  [ st EXCEPT !.isMyTurn = (m.next_turn = playerId),
              !.error = Some(IF m.player_id = playerId THEN "Your turn timed out!"
                             ELSE "Opponent's turn timed out!") ]

on_errorClearsTurn(st, m) == [ st EXCEPT !.error = Some(m.message), !.isMyTurn = FALSE ]

on_error(st, m) == [ st EXCEPT !.error = Some(m.message) ]

\* webSocketService dispatches a message to the handler registered for its type
dispatch(st, playerId, m) ==
  CASE m.type = "move_made" -> on_move_made(st, playerId, m)
    [] m.type = "power_up_used" -> on_power_up_used(st, playerId, m)
    [] m.type = "turn_timeout" -> on_turn_timeout(st, playerId, m)
    [] m.type = "random_event" -> on_random_event(st, m)
    [] m.type = "error" -> on_error(st, m)
    [] OTHER -> st

\* --------------------------------------------------------- the coordinator
\* submit_move of the coordinator: validation, then the drop and the turn
\* advance, for which the repository's makeMove stands. The discs of MaxClicks
\* clicks complete no run of 4 and column blocks are not kept by the room
\* object, so win evaluation and ColumnBlocked are not part of this handler.
submit_move(g, player_id, column) ==
  IF player_id # g.currentTurn
  THEN [ game |-> g, status |-> "NotYourTurn", result |-> Null ]
  ELSE IF ~ g.isActive \/ g.gameOver
  THEN [ game |-> g, status |-> "GameNotActive", result |-> Null ]
  ELSE LET m == makeMove(g, player_id, column)
       IN IF IsNull(m.result)
          THEN [ game |-> g, status |-> "ColumnFull", result |-> Null ]
          ELSE [ game |-> m.game, status |-> "ok", result |-> m.result ]

\* submit_power_up of the coordinator: validation, then the effect, for which
\* the repository's usePowerUp stands, and the inventory decrement
submit_power_up(g, inv, player_id, power_up_id, target_data) ==
  IF inv[player_id][power_up_id] = 0
  THEN [ game |-> g, inventory |-> inv, status |-> "NoUsesRemaining", effect |-> NoEffect ]
  ELSE IF player_id # g.currentTurn
  THEN [ game |-> g, inventory |-> inv, status |-> "NotYourTurn", effect |-> NoEffect ]
  ELSE IF ~ g.isActive \/ g.gameOver
  THEN [ game |-> g, inventory |-> inv, status |-> "GameNotActive", effect |-> NoEffect ]
  ELSE LET u == usePowerUp(g, player_id, power_up_id, target_data[1],
                           target_data[1], target_data[2], target_data[1])
       IN [ game |-> u.game,
            inventory |-> [ inv EXCEPT ![player_id][power_up_id] = @ - 1 ],
            status |-> "ok",
            effect |-> u.effect ]

\* push m to every player of the room whose socket is open
broadcast(queues, open, m) ==
  [ q \in DOMAIN queues |-> IF open[q] THEN Append(queues[q], m) ELSE queues[q] ]

\* push m to the requester alone
reply(queues, open, p, m) ==
  [ queues EXCEPT ![p] = IF open[p] THEN Append(@, m) ELSE @ ]

RECURSIVE SumLen(_, _)
SumLen(b, cs) ==
  IF cs = {} THEN 0
  ELSE LET c == CHOOSE x \in cs : TRUE IN Len(b[c]) + SumLen(b, cs \ { c })
TotalDiscs(g) == SumLen(g.board, Cols)

Players == Range(game.players)

InitCoord ==
  /\ \E n \in 2 .. MaxPlayers : game = createGameRoom(n)
  /\ clockLate = FALSE
  /\ rooms = 1
  /\ last = NoCall
  /\ winRecord = Null
  /\ client = [ p \in Players |-> clientStarted(p, game.currentTurn) ]
  /\ socketOpen = [ p \in Players |-> TRUE ]
  /\ toServer = [ p \in Players |-> << >> ]
  /\ toClient = [ p \in Players |-> << >> ]
  /\ inventory = [ p \in Players |-> [ k \in Range(POWER_UP_TYPES) |-> DefaultUses ] ]
  /\ race = NoRace
  /\ clicks = 0
  /\ turnStart = 0
  /\ fired = {}
  /\ timeouts = 0
  /\ session = [ p \in Players |-> "first" ]
  /\ closes = 0
  /\ eventCounter = 0
  /\ room = << >>
  /\ lobby = << >>
  /\ hook = << >>
  /\ inbox = << >>
  /\ joins = 0
  /\ leaves = 0
  /\ ws = WebSocketService
  /\ api = NoRequest

MoveInFlight(q) == \E i \in 1 .. Len(toServer[q]) : toServer[q][i].type = "move"

\* the player clicks a column
ClientMakeMove ==
  \E p \in Players, column \in InputCols :
    /\ clicks < MaxClicks
    /\ clicks' = clicks + 1
    /\ LET r == useGame_makeMove(client[p], socketOpen[p], column)
       IN /\ client' = [ client EXCEPT ![p] = r.state ]
          /\ toServer' = IF IsNull(r.sent) THEN toServer
                         ELSE [ toServer EXCEPT ![p] = Append(@, r.sent[1]) ]
          /\ last' = [ NoCall EXCEPT !.kind = "client_move", !.player = p,
                                     !.sent = r.ret ]
          /\ race' = IF /\ race = NoRace
                        /\ ~ IsNull(r.sent)
                        /\ \E q \in Players \ { p } :
                             MoveInFlight(q) /\ game.currentTurn \in { p, q }
                     THEN [ holder |-> game.currentTurn, outcome |-> << >> ]
                     ELSE race
    /\ UNCHANGED << game, simVars, socketOpen, toClient, inventory, otherVars,
                    auxVars >>

\* the player picks a power-up and its target columns
ClientUsePowerUp ==
  \E p \in Players, k \in InputPowerUps :
    /\ clicks < MaxClicks
    /\ clicks' = clicks + 1
    /\ LET r == useGame_usePowerUp(client[p], socketOpen[p], k, InputTarget)
       IN /\ client' = [ client EXCEPT ![p] = r.state ]
          /\ toServer' = IF IsNull(r.sent) THEN toServer
                         ELSE [ toServer EXCEPT ![p] = Append(@, r.sent[1]) ]
          /\ last' = [ NoCall EXCEPT !.kind = "client_power_up", !.player = p,
                                     !.sent = r.ret ]
    /\ UNCHANGED << game, simVars, socketOpen, toClient, inventory, race, otherVars,
                    auxVars >>

\* the socket delivers the next pushed message and the hook handles it
ClientDispatch ==
  \E p \in Players :
    /\ toClient[p] # << >>
    /\ socketOpen[p]
    /\ client' = [ client EXCEPT ![p] = dispatch(@, p, toClient[p][1]) ]
    /\ toClient' = [ toClient EXCEPT ![p] = Tail(@) ]
    /\ last' = [ NoCall EXCEPT !.kind = "dispatch", !.player = p,
                               !.event = toClient[p][1].type ]
    /\ UNCHANGED << game, simVars, socketOpen, toServer, inventory, race, clicks, otherVars,
                    auxVars >>

\* the 5 s timer of the error handler, or the clearGameError window event
ClientClearError ==
  \E p \in Players :
    /\ ~ IsNull(client[p].error)
    /\ client' = [ client EXCEPT ![p].error = Null ]
    /\ last' = [ NoCall EXCEPT !.kind = "clear_error", !.player = p ]
    /\ UNCHANGED << game, simVars, socketOpen, toServer, toClient, inventory, race, clicks, otherVars,
                    auxVars >>

\* the outcome of the first handled move of each of the two submitters
RaceOutcome(p, r) ==
  IF race # NoRace /\ Len(race.outcome) < 2
     /\ \A i \in 1 .. Len(race.outcome) : race.outcome[i].player # p
  THEN [ race EXCEPT !.outcome =
           Append(@, [ player |-> p, status |-> r.status,
                       placed |-> TotalDiscs(r.game) - TotalDiscs(game),
                       advanced |-> IF r.game.currentTurn # game.currentTurn
                                    THEN 1 ELSE 0 ]) ]
  ELSE race

\* the coordinator handles one submitted move; submissions of a room are
\* handled one at a time
CoordSubmitMove ==
  \E p \in Players :
    /\ toServer[p] # << >>
    /\ toServer[p][1].type = "move"
    /\ LET column == toServer[p][1].column
           r == submit_move(game, p, column)
       IN /\ game' = r.game
          /\ toClient' =
               IF r.status = "ok"
               THEN broadcast(toClient, socketOpen,
                      [ NoMsg EXCEPT !.type = "move_made", !.player_id = p,
                                     !.column = column, !.row = r.result[1].row,
                                     !.next_turn = r.game.currentTurn ])
               ELSE reply(toClient, socketOpen, p,
                      [ NoMsg EXCEPT !.type = "error", !.message = r.status ])
          /\ last' = [ NoCall EXCEPT !.kind = "submit_move", !.player = p,
                                     !.column = column, !.result = r.result,
                                     !.error = IF r.status = "ok" THEN "" ELSE r.status ]
          /\ race' = RaceOutcome(p, r)
    /\ toServer' = [ toServer EXCEPT ![p] = Tail(@) ]
    \* a legal advance resets the turn timer
    /\ turnStart' = IF last'.error = "" THEN turnStart + 1 ELSE turnStart
    /\ UNCHANGED << simVars, client, socketOpen, inventory, clicks, fired, timeouts, connVars,
                    auxVars >>

\* the coordinator handles one submitted power-up
CoordSubmitPowerUp ==
  \E p \in Players :
    /\ toServer[p] # << >>
    /\ toServer[p][1].type = "power_up"
    /\ LET m == toServer[p][1]
           r == submit_power_up(game, inventory, p, m.power_up_id, m.target_data)
       IN /\ game' = r.game
          /\ inventory' = r.inventory
          /\ toClient' =
               IF r.status = "ok"
               THEN broadcast(toClient, socketOpen,
                      [ NoMsg EXCEPT !.type = "power_up_used", !.player_id = p,
                                     !.power_up_id = m.power_up_id,
                                     !.remaining_uses = r.inventory[p][m.power_up_id],
                                     !.effect = r.effect ])
               ELSE reply(toClient, socketOpen, p,
                      [ NoMsg EXCEPT !.type = "error", !.message = r.status ])
          /\ last' = [ NoCall EXCEPT !.kind = "submit_power_up", !.player = p,
                                     !.powerUpId = m.power_up_id, !.effect = r.effect,
                                     !.error = IF r.status = "ok" THEN "" ELSE r.status ]
    /\ toServer' = [ toServer EXCEPT ![p] = Tail(@) ]
    /\ turnStart' = IF last'.error = "" THEN turnStart + 1 ELSE turnStart
    /\ UNCHANGED << simVars, client, socketOpen, race, clicks, fired, timeouts, connVars,
                    auxVars >>

NextCoord ==
  \/ ClientMakeMove
  \/ ClientUsePowerUp
  \/ ClientDispatch
  \/ ClientClearError
  \/ CoordSubmitMove
  \/ CoordSubmitPowerUp

SpecCoord == InitCoord /\ [][NextCoord]_vars

\* ============================================================ turn timer
\* bound: the turn timer fires at most MaxTimeouts times
MaxTimeouts == 1
\* bound: with the turn timer running the players submit at most
\* MaxTimerMoves moves
MaxTimerMoves == 2

\* handle_turn_timeout of the coordinator for the timeout t, scheduled for the
\* turn of t.holder that started at t.start: it acts only while that turn is
\* still the current one, and then forces the advance without placing a disc
handle_turn_timeout(g, start, t) ==
  IF g.isActive /\ ~ g.gameOver /\ t.holder = g.currentTurn /\ t.start = start
  THEN [ game |-> [ g EXCEPT !.currentTurn = getNextPlayer(g) ], acted |-> TRUE ]
  ELSE [ game |-> g, acted |-> FALSE ]

\* the timer of the current turn expires; the timeout waits for the room's lock
TimerFire ==
  /\ timeouts < MaxTimeouts
  /\ [ holder |-> game.currentTurn, start |-> turnStart ] \notin fired
  /\ fired' = fired \cup { [ holder |-> game.currentTurn, start |-> turnStart ] }
  /\ timeouts' = timeouts + 1
  /\ last' = [ NoCall EXCEPT !.kind = "timer_fire", !.player = game.currentTurn ]
  /\ UNCHANGED << game, simVars, client, socketOpen, toServer, toClient,
                  inventory, race, clicks, turnStart, connVars,
                    auxVars >>

\* the coordinator handles one fired timeout
CoordTimeout ==
  \E t \in fired :
    /\ LET r == handle_turn_timeout(game, turnStart, t)
       IN /\ game' = r.game
          /\ turnStart' = IF r.acted THEN turnStart + 1 ELSE turnStart
          /\ toClient' =
               IF r.acted
               THEN broadcast(toClient, socketOpen,
                      [ NoMsg EXCEPT !.type = "turn_timeout", !.player_id = t.holder,
                                     !.next_turn = r.game.currentTurn ])
               ELSE toClient
          /\ last' = [ NoCall EXCEPT !.kind = "timeout", !.player = t.holder,
                                     !.sent = r.acted ]
    /\ fired' = fired \ { t }
    /\ UNCHANGED << simVars, client, socketOpen, toServer, inventory, race,
                    clicks, timeouts, connVars,
                    auxVars >>

\* a click that the browser turns into a submitted move; the clicks a browser
\* refuses send nothing and are left out here
ClientSendsMove ==
  /\ clicks < MaxTimerMoves
  /\ ClientMakeMove
  /\ last'.sent = TRUE

NextTimer ==
  \/ ClientSendsMove
  \/ ClientDispatch
  \/ CoordSubmitMove
  \/ TimerFire
  \/ CoordTimeout

SpecTimer == InitCoord /\ [][NextTimer]_vars

\* ===================================================== dropped connections
\* bounds: at most MaxCloses connections drop, and with connections dropping
\* the players click a column at most MaxNetMoves times
MaxCloses == 1
MaxNetMoves == 1

\* the error handler useGame registers with webSocketService.onError
onError(st) == [ st EXCEPT !.error = Some("Connection error") ]

\* useGame.updateRoom with the room GameAPI.getRooms returned
updateRoom(st, playerId, r) ==
  [ st EXCEPT !.isMyTurn = (r.currentTurn = playerId) ]

\* the stacks of the 7 columns as the browser's board shows them
ClientStacks(st) ==
  [ c \in Cols |-> [ i \in 1 .. Len(st.board[toString(c)]) |->
                      st.board[toString(c)][i].playerId ] ]

\* a click on a column while connections may drop
ClientNetMove ==
  /\ clicks < MaxNetMoves
  /\ ClientMakeMove

\* the socket of a player closes abnormally (handleClose): what was pushed to
\* it and not yet delivered is lost, the error handlers are notified
SocketClose ==
  \E p \in Players :
    /\ socketOpen[p]
    /\ closes < MaxCloses
    /\ closes' = closes + 1
    /\ socketOpen' = [ socketOpen EXCEPT ![p] = FALSE ]
    /\ toClient' = [ toClient EXCEPT ![p] = << >> ]
    /\ client' = [ client EXCEPT ![p] = onError(@) ]
    /\ session' = [ session EXCEPT ![p] = "lost" ]
    /\ last' = [ NoCall EXCEPT !.kind = "socket_close", !.player = p ]
    /\ UNCHANGED << game, simVars, toServer, inventory, race, clicks, timerVars,
                    auxVars >>

\* attemptReconnect's timer connects again and the socket opens (handleOpen);
\* useGame registers no handler for connection_established
SocketOpen ==
  \E p \in Players :
    /\ ~ socketOpen[p]
    /\ socketOpen' = [ socketOpen EXCEPT ![p] = TRUE ]
    /\ session' = [ session EXCEPT ![p] = "reconnected" ]
    /\ last' = [ NoCall EXCEPT !.kind = "socket_open", !.player = p ]
    /\ UNCHANGED << game, simVars, client, toServer, toClient, inventory, race,
                    clicks, timerVars, closes,
                    auxVars >>

\* the 1 s poll of useGame copies webSocketService.isConnected() to the state
CheckConnection ==
  \E p \in Players :
    /\ client[p].isConnected # socketOpen[p]
    /\ client' = [ client EXCEPT ![p].isConnected = socketOpen[p] ]
    /\ last' = [ NoCall EXCEPT !.kind = "check_connection", !.player = p ]
    /\ UNCHANGED << game, simVars, socketOpen, toServer, toClient, inventory,
                    race, clicks, otherVars,
                    auxVars >>

\* GamePage loads the room over the REST interface and calls updateRoom
LoadRoom ==
  \E p \in Players :
    /\ session[p] = "reconnected" \/ client[p].isMyTurn # (game.currentTurn = p)
    /\ client' = [ client EXCEPT ![p] = updateRoom(@, p, game) ]
    /\ session' = [ session EXCEPT ![p] = IF @ = "reconnected" THEN "synced" ELSE @ ]
    /\ last' = [ NoCall EXCEPT !.kind = "load_room", !.player = p ]
    /\ UNCHANGED << game, simVars, socketOpen, toServer, toClient, inventory,
                    race, clicks, timerVars, closes,
                    auxVars >>

\* submit_move when the column's shard stays unreachable through the bounded
\* retries: the error goes to the requester and the turn is not advanced
submit_move_unreachable(g, player_id, column) ==
  IF player_id # g.currentTurn
  THEN [ game |-> g, status |-> "NotYourTurn", result |-> Null ]
  ELSE IF ~ g.isActive \/ g.gameOver
  THEN [ game |-> g, status |-> "GameNotActive", result |-> Null ]
  ELSE [ game |-> g, status |-> "ShardUnavailable", result |-> Null ]

\* the coordinator handles a submitted move of the turn holder and the shard
\* of the column cannot be reached
CoordShardFailure ==
  \E p \in Players :
    /\ toServer[p] # << >>
    /\ toServer[p][1].type = "move"
    /\ p = game.currentTurn
    /\ LET column == toServer[p][1].column
           r == submit_move_unreachable(game, p, column)
       IN /\ game' = r.game
          /\ toClient' = reply(toClient, socketOpen, p,
                            [ NoMsg EXCEPT !.type = "error", !.message = r.status ])
          /\ last' = [ NoCall EXCEPT !.kind = "submit_move", !.player = p,
                                     !.column = column, !.result = r.result,
                                     !.error = r.status ]
    /\ toServer' = [ toServer EXCEPT ![p] = Tail(@) ]
    /\ UNCHANGED << simVars, client, socketOpen, inventory, race, clicks,
                    otherVars, auxVars >>

NextNet ==
  \/ ClientNetMove
  \/ CoordShardFailure
  \/ ClientDispatch
  \/ CoordSubmitMove
  \/ SocketClose
  \/ SocketOpen
  \/ CheckConnection
  \/ LoadRoom

SpecNet == InitCoord /\ [][NextNet]_vars

\* ======================================================= demo simulation
\* bound: generateEvent stops drawing power-ups at MaxDemoEvents events
MaxDemoEvents == 54

\* the columns Math.random() picks for the demo's moves: after n discs either
\* DEMO_FILL[n + 1] or a column that is full. DEMO_FILL is one order in which
\* the seven columns fill up
DEMO_FILL ==
  << 0 >> \o << 2, 2, 2, 2, 2, 2 >> \o << 3, 3, 3, 3, 3, 3 >>
          \o << 6, 6, 6, 6, 6, 6 >> \o << 0, 0, 0, 0, 0 >>
          \o << 1, 1, 1, 1, 1, 1 >> \o << 4, 4, 4, 4, 4, 4 >>
          \o << 5, 5, 5, 5, 5, 5 >>
DemoCols(g) ==
  { c \in Cols : \/ Len(g.board[c]) = MaxRows
                 \/ /\ TotalDiscs(g) < Len(DEMO_FILL)
                    /\ c = DEMO_FILL[TotalDiscs(g) + 1] }
\* the power-up kinds Math.random() picks in the demo runs that are followed
DemoPowerUps == { "gravity_flip", "column_block" }
\* the demo has the first three random events
DemoEvents == 1 .. 3

\* runDemoSimulation: one room of 2 players, no browser connected
InitDemo ==
  /\ game = createGameRoom(2)
  /\ clockLate = FALSE
  /\ rooms = 1
  /\ last = NoCall
  /\ winRecord = Null
  /\ NetIdle

\* generateEvent, eventType < 7: the current player drops a disc
DemoMove ==
  /\ eventCounter < 7
  /\ \E column \in DemoCols(game) :
       LET currentPlayer == game.currentTurn
           m == makeMove(game, currentPlayer, column)
       IN /\ game' = m.game
          /\ last' = [ NoCall EXCEPT !.kind = "move", !.player = currentPlayer,
                                     !.column = column, !.result = m.result ]
  /\ eventCounter' = (eventCounter + 1) % 10
  /\ UNCHANGED << simVars, coordVars, lobbyVars, wsVars >>

\* generateEvent, eventType < 9: the current player uses a power-up
DemoPowerUp ==
  /\ eventCounter \in { 7, 8 }
  /\ game.eventCount < MaxDemoEvents
  /\ \E k \in DemoPowerUps :
       LET currentPlayer == game.currentTurn
           p == usePowerUp(game, currentPlayer, k, 0, 0, 0, 0)
       IN /\ game' = p.game
          /\ last' = [ NoCall EXCEPT !.kind = "power_up", !.player = currentPlayer,
                                     !.powerUpId = p.powerUpId, !.effect = p.effect ]
  /\ eventCounter' = (eventCounter + 1) % 10
  /\ UNCHANGED << simVars, coordVars, lobbyVars, wsVars >>

\* generateEvent, otherwise: a random event, published and not kept
DemoRandomEvent ==
  /\ eventCounter = 9
  /\ \E eventIdx \in DemoEvents :
       last' = [ NoCall EXCEPT !.kind = "random_event",
                               !.event = RANDOM_EVENTS[eventIdx].id,
                               !.affected = << 0, 2, 4, 6 >> ]
  /\ eventCounter' = (eventCounter + 1) % 10
  /\ UNCHANGED << game, simVars, coordVars, lobbyVars, wsVars >>

NextDemo ==
  \/ DemoMove
  \/ DemoPowerUp
  \/ DemoRandomEvent

SpecDemo == InitDemo /\ [][NextDemo]_vars

\* ================================================ the lobby and the start
\* bounds of the specification of the lobby: join requests and departures
MaxJoins == 3
MaxLeaves == 1

\* the browsers; the id join_room generates for the player of browser b is b
Browsers == { "player1", "player2", "player3" }
\* max_players of the created room (the lobby's input allows 2 to 4); with
\* three browsers a room of 2 is the one that can be asked to over-fill
RoomSizes == { 2 }
\* PLAYER_COLORS of the room generator and the four colors of the lobby
PLAYER_COLORS == << "red", "yellow", "green", "blue", "purple", "orange" >>
LOBBY_COLORS == << "red", "yellow", "green", "blue" >>
\* the colors a player picks in the join dialog ("" is the placeholder)
InputColors == { "", "red" }

\* createGameRoom: the color of the i-th player (0-based) of a generated room
roomColors(numPlayers) ==
  [ i \in 1 .. numPlayers |-> PLAYER_COLORS[((i - 1) % Len(PLAYER_COLORS)) + 1] ]

usedColors(players) == { players[i].color : i \in 1 .. Len(players) }

\* ------------------------------------------------ the coordinator's room
create_room(max_players, random_events_enabled) ==
  [ max_players |-> max_players,
    random_events_enabled |-> random_events_enabled,
    is_active |-> FALSE,
    players |-> << >>,
    current_turn |-> "",
    board |-> [ c \in Cols |-> << >> ] ]

\* the first color of the palette no player of the room has
firstFreeColor(players) ==
  LET free == { i \in 1 .. Len(PLAYER_COLORS) : PLAYER_COLORS[i] \notin usedColors(players) }
  IN PLAYER_COLORS[CHOOSE i \in free : \A j \in free : i <= j]

join_room(r, id, requested_color) ==
  IF Len(r.players) = r.max_players
  THEN [ room |-> r, status |-> "RoomFull", player |-> Null ]
  ELSE IF r.is_active
  THEN [ room |-> r, status |-> "GameAlreadyStarted", player |-> Null ]
  ELSE IF requested_color # "" /\ requested_color \in usedColors(r.players)
  THEN [ room |-> r, status |-> "ColorUnavailable", player |-> Null ]
  ELSE LET color == IF requested_color # "" THEN requested_color
                    ELSE firstFreeColor(r.players)
           player == [ id |-> id, color |-> color ]
       IN [ room |-> [ r EXCEPT !.players = Append(@, player) ],
            status |-> "", player |-> Some(player) ]

start_game(r) ==
  IF Len(r.players) < 2
  THEN [ room |-> r, status |-> "NotEnoughPlayers" ]
  ELSE IF r.is_active
  THEN [ room |-> r, status |-> "AlreadyStarted" ]
  ELSE [ room |-> [ r EXCEPT !.is_active = TRUE,
                             !.current_turn = r.players[1].id,
                             !.board = [ c \in Cols |-> << >> ] ],
         status |-> "" ]

\* a player leaves: the seat is freed; if the player held the turn of an
\* active room the turn goes to the next seated player
leave_room(r, id) ==
  LET rest == SelectSeq(r.players, LAMBDA q : q.id # id)
      seat == CHOOSE i \in 1 .. Len(r.players) : r.players[i].id = id
      next == r.players[(seat % Len(r.players)) + 1].id
  IN [ r EXCEPT !.players = rest,
                !.current_turn = IF r.is_active /\ r.current_turn = id
                                 THEN (IF rest = << >> THEN "" ELSE next)
                                 ELSE @ ]

\* ---------------------------------------------------------- the browsers
NoRoomMsg == [ type |-> "", player |-> Null, player_id |-> "", room |-> Null,
               current_turn |-> "" ]

\* LobbyPage: the state of a browser that opened the lobby
lobbyInitial ==
  [ selectedRoom |-> Null, selectedColor |-> "", modal |-> FALSE ]

\* the Join button of a row of the room list is enabled
JoinOfferedWhenFull(r) == ~ r.is_active

JoinOffered(r) == ~ (r.is_active \/ Len(r.players) >= r.max_players)

\* getAvailableColors of the join dialog
getAvailableColorsAll(selectedRoom) == LOBBY_COLORS

getAvailableColors(selectedRoom) ==
  IF IsNull(selectedRoom)
  THEN LOBBY_COLORS
  ELSE SelectSeq(LOBBY_COLORS,
                 LAMBDA color : color \notin usedColors(selectedRoom[1].players))

\* useGame: the state of a mounted GamePage before any message
useGameInitial ==
  [ room |-> Null, player |-> Null, isMyTurn |-> FALSE,
    board |-> [ k \in {} |-> << >> ], error |-> Null ]

\* initializeBoard: 7 empty columns
initializeBoard == [ k \in Range(COL_KEYS) |-> << >> ]

on_player_joined(st, m) ==
  IF IsNull(st.room)
  THEN st
  ELSE [ st EXCEPT !.room = Some([ st.room[1] EXCEPT !.players = Append(@, m.player[1]) ]) ]

on_player_leftKeepsTurn(st, playerId, m) ==
  IF IsNull(st.room)
  THEN st
  ELSE [ st EXCEPT
           !.room = Some([ st.room[1] EXCEPT
                             !.players = SelectSeq(@, LAMBDA q : q.id # m.player_id) ]) ]

on_player_left(st, playerId, m) ==
  IF IsNull(st.room)
  THEN st
  ELSE [ st EXCEPT
           !.room = Some([ st.room[1] EXCEPT
                             !.players = SelectSeq(@, LAMBDA q : q.id # m.player_id),
                             !.current_turn = m.current_turn ]),
           !.isMyTurn = (m.current_turn = playerId) ]

on_game_startedKeepsBoard(st, playerId, m) ==
  [ st EXCEPT !.room = m.room,
              !.isMyTurn = (m.current_turn = playerId),
              !.error = Null ]

on_game_started(st, playerId, m) ==
  [ st EXCEPT !.room = m.room,
              !.isMyTurn = (m.current_turn = playerId),
              !.error = Null,
              !.board = initializeBoard ]

roomDispatch(st, playerId, m) ==
  CASE m.type = "player_joined" -> on_player_joined(st, m)
    [] m.type = "player_left" -> on_player_left(st, playerId, m)
    [] m.type = "game_started" -> on_game_started(st, playerId, m)
    [] m.type = "move_made" -> on_move_made(st, playerId, m)
    [] m.type = "turn_timeout" -> on_turn_timeout(st, playerId, m)
    [] OTHER -> st

\* useGame.updateRoom with the room record of the REST interface
useGame_updateRoom(st, playerId, r) ==
  [ st EXCEPT
      !.room = Some(r),
      !.player = IF \E i \in 1 .. Len(r.players) : r.players[i].id = playerId
                 THEN Some(r.players[CHOOSE i \in 1 .. Len(r.players) :
                                       /\ r.players[i].id = playerId
                                       /\ \A j \in 1 .. (i - 1) : r.players[j].id # playerId])
                 ELSE Null,
      !.isMyTurn = (r.current_turn = playerId) ]

\* the Start Game button of the GamePage is shown
StartOfferedAlone(st) ==
  /\ ~ IsNull(st.room)
  /\ ~ st.room[1].is_active
  /\ Len(st.room[1].players) >= 1
  /\ ~ IsNull(st.player)
  /\ st.player[1].id = st.room[1].players[1].id

StartOffered(st) ==
  /\ ~ IsNull(st.room)
  /\ ~ st.room[1].is_active
  /\ Len(st.room[1].players) >= 2
  /\ ~ IsNull(st.player)
  /\ st.player[1].id = st.room[1].players[1].id

\* push m to every mounted GamePage but the one of browser b
pushOthers(queues, pages, b, m) ==
  [ q \in DOMAIN queues |->
      IF q # b /\ ~ IsNull(pages[q]) THEN Append(queues[q], m) ELSE queues[q] ]

InitLobby ==
  /\ game = createGameRoom(2)
  /\ clockLate = FALSE
  /\ rooms = 1
  /\ last = NoCall
  /\ winRecord = Null
  /\ client = << >>
  /\ socketOpen = << >>
  /\ toServer = << >>
  /\ toClient = << >>
  /\ inventory = << >>
  /\ race = NoRace
  /\ clicks = 0
  /\ turnStart = 0
  /\ fired = {}
  /\ timeouts = 0
  /\ session = << >>
  /\ closes = 0
  /\ eventCounter = 0
  /\ \E n \in RoomSizes : room = create_room(n, TRUE)
  /\ lobby = [ b \in Browsers |-> lobbyInitial ]
  /\ hook = [ b \in Browsers |-> Null ]
  /\ inbox = [ b \in Browsers |-> << >> ]
  /\ joins = 0
  /\ leaves = 0
  /\ ws = WebSocketService
  /\ api = NoRequest

\* loadRooms and handleSelectRoom: the lobby shows the fetched room list and
\* the player clicks the enabled Join button of the room, which opens the
\* dialog on that copy of the room. The copy ages while the dialog is open.
LobbySelectRoom ==
  \E b \in Browsers :
    /\ IsNull(hook[b])
    /\ ~ lobby[b].modal
    /\ JoinOffered(room)
    /\ lobby' = [ lobby EXCEPT ![b].selectedRoom = Some(room),
                               ![b].modal = TRUE ]
    /\ last' = [ NoCall EXCEPT !.kind = "select_room", !.player = b ]
    /\ UNCHANGED << game, simVars, coordVars, demoVars, wsVars, room, hook, inbox,
                    joins, leaves >>

\* the color select of the dialog: one of the offered colors or the placeholder
LobbyPickColor ==
  \E b \in Browsers :
    /\ IsNull(hook[b])
    /\ lobby[b].modal
    /\ \E color \in InputColors \ { lobby[b].selectedColor } :
         /\ color \in Range(getAvailableColors(lobby[b].selectedRoom)) \cup { "" }
         /\ lobby' = [ lobby EXCEPT ![b].selectedColor = color ]
         /\ last' = [ NoCall EXCEPT !.kind = "pick_color", !.player = b,
                                    !.event = color ]
    /\ UNCHANGED << game, simVars, coordVars, demoVars, wsVars, room, hook, inbox,
                    joins, leaves >>

\* handleJoinRoom: the join request with the selected color; on success the
\* browser navigates to the GamePage, in either case the dialog closes
LobbyJoinRoom ==
  \E b \in Browsers :
    /\ joins < MaxJoins
    /\ IsNull(hook[b])
    /\ lobby[b].modal
    /\ LET r == join_room(room, b, lobby[b].selectedColor)
       IN /\ room' = r.room
          /\ IF r.status = ""
             THEN /\ hook' = [ hook EXCEPT ![b] = Some(useGameInitial) ]
                  /\ inbox' = pushOthers(inbox, hook, b,
                                 [ NoRoomMsg EXCEPT !.type = "player_joined",
                                                    !.player = r.player ])
             ELSE UNCHANGED << hook, inbox >>
          /\ last' = [ NoCall EXCEPT !.kind = "join_room", !.player = b,
                                     !.event = lobby[b].selectedColor,
                                     !.error = r.status ]
    /\ lobby' = [ lobby EXCEPT ![b].modal = FALSE ]
    /\ joins' = joins + 1
    /\ UNCHANGED << game, simVars, coordVars, demoVars, wsVars, leaves >>

\* loadRoom of the GamePage: the room is fetched and handed to updateRoom
PageLoadRoom ==
  \E b \in Browsers :
    /\ ~ IsNull(hook[b])
    /\ hook[b][1] # useGame_updateRoom(hook[b][1], b, room)
    /\ hook' = [ hook EXCEPT ![b] = Some(useGame_updateRoom(hook[b][1], b, room)) ]
    /\ last' = [ NoCall EXCEPT !.kind = "page_load_room", !.player = b ]
    /\ UNCHANGED << game, simVars, coordVars, demoVars, wsVars, room, lobby, inbox,
                    joins, leaves >>

\* a room message reaches the GamePage of a browser
PageDispatch ==
  \E b \in Browsers :
    /\ ~ IsNull(hook[b])
    /\ inbox[b] # << >>
    /\ hook' = [ hook EXCEPT ![b] = Some(roomDispatch(hook[b][1], b, inbox[b][1])) ]
    /\ inbox' = [ inbox EXCEPT ![b] = Tail(@) ]
    /\ last' = [ NoCall EXCEPT !.kind = "page_dispatch", !.player = b,
                               !.event = inbox[b][1].type ]
    /\ UNCHANGED << game, simVars, coordVars, demoVars, wsVars, room, lobby, joins,
                    leaves >>

\* a click on the Start Game button: GameAPI.startGame
PageStartGame ==
  \E b \in Browsers :
    /\ ~ IsNull(hook[b])
    /\ StartOffered(hook[b][1])
    /\ LET r == start_game(room)
       IN /\ room' = r.room
          /\ inbox' = IF r.status = ""
                       THEN pushOthers(inbox, hook, "",
                              [ NoRoomMsg EXCEPT !.type = "game_started",
                                                 !.room = Some(r.room),
                                                 !.current_turn = r.room.current_turn ])
                       ELSE inbox
          /\ last' = [ NoCall EXCEPT !.kind = "start_game", !.player = b,
                                     !.error = r.status ]
    /\ UNCHANGED << game, simVars, coordVars, demoVars, wsVars, lobby, hook, joins,
                    leaves >>

\* Leave Game: the browser goes back to the lobby, its socket closes and the
\* coordinator takes the player out of the room
PageLeave ==
  \E b \in Browsers :
    /\ leaves < MaxLeaves
    /\ ~ IsNull(hook[b])
    /\ room' = leave_room(room, b)
    /\ hook' = [ hook EXCEPT ![b] = Null ]
    /\ inbox' = [ pushOthers(inbox, hook, b,
                    [ NoRoomMsg EXCEPT !.type = "player_left", !.player_id = b,
                                       !.current_turn = room'.current_turn ])
                  EXCEPT ![b] = << >> ]
    /\ leaves' = leaves + 1
    /\ last' = [ NoCall EXCEPT !.kind = "leave", !.player = b ]
    /\ UNCHANGED << game, simVars, coordVars, demoVars, wsVars, lobby, joins >>

NextLobby ==
  \/ LobbySelectRoom
  \/ LobbyPickColor
  \/ LobbyJoinRoom
  \/ PageLoadRoom
  \/ PageDispatch
  \/ PageStartGame
  \/ PageLeave

SpecLobby == InitLobby /\ [][NextLobby]_vars

\* ========================================================= random events
\* bounds of the specification with random events: moves the players submit
\* and events (moves and random events) of the room in all
MaxEvMoves == 1
MaxRoomEvents == 2

\* the events Math.random() picks for the room: column_shuffle (2 turns) and
\* power_surge (1 turn)
TickEvents == { 2, 3 }

\* handleCreateRoom: the create request of the lobby
handleCreateRoom(maxPlayers, randomEventsEnabled) ==
  [ max_players |-> maxPlayers, random_events_enabled |-> randomEventsEnabled ]

\* the room the lobby created with the request and two players started
startedRoom(request) ==
  LET r0 == create_room(request.max_players, request.random_events_enabled)
      r1 == join_room(r0, PLAYER_IDS[1], "").room
      r2 == join_room(r1, PLAYER_IDS[2], "").room
  IN start_game(r2).room

InitEvents ==
  /\ game = createGameRoom(2)
  /\ clockLate = FALSE
  /\ rooms = 1
  /\ last = NoCall
  /\ winRecord = Null
  /\ client = [ p \in Players |-> clientStarted(p, game.currentTurn) ]
  /\ socketOpen = [ p \in Players |-> TRUE ]
  /\ toServer = [ p \in Players |-> << >> ]
  /\ toClient = [ p \in Players |-> << >> ]
  /\ inventory = [ p \in Players |-> [ k \in Range(POWER_UP_TYPES) |-> DefaultUses ] ]
  /\ race = NoRace
  /\ clicks = 0
  /\ turnStart = 0
  /\ fired = {}
  /\ timeouts = 0
  /\ session = [ p \in Players |-> "first" ]
  /\ closes = 0
  /\ eventCounter = 0
  /\ \E randomEventsEnabled \in BOOLEAN :
       room = startedRoom(handleCreateRoom(2, randomEventsEnabled))
  /\ lobby = << >>
  /\ hook = << >>
  /\ inbox = << >>
  /\ joins = 0
  /\ leaves = 0
  /\ ws = WebSocketService
  /\ api = NoRequest

\* a click that the browser turns into a submitted move
ClientEvMove ==
  /\ clicks < MaxEvMoves
  /\ ClientMakeMove
  /\ last'.sent = TRUE

\* the random event branch of the event loop: triggerRandomEvent on the room,
\* then the random_event message to the players
SchedulerTick ==
  /\ game.isActive
  /\ ~ game.gameOver
  /\ game.eventCount < MaxRoomEvents
  /\ \E eventIdx \in TickEvents, affectedColumns \in AffectedChoices :
       LET t == triggerRandomEvent(game, eventIdx, affectedColumns)
       IN /\ game' = t.game
          /\ toClient' = broadcast(toClient, socketOpen,
                            [ NoMsg EXCEPT !.type = "random_event",
                                           !.event = Some(t.event),
                                           !.effect_result = t.effectResult ])
          /\ last' = [ NoCall EXCEPT !.kind = "random_event",
                                     !.event = t.event.id,
                                     !.affected = affectedColumns ]
  /\ UNCHANGED << simVars, client, socketOpen, toServer, inventory, race, clicks,
                  otherVars, auxVars >>

NextEvents ==
  \/ ClientEvMove
  \/ CoordSubmitMove
  \/ ClientDispatch
  \/ SchedulerTick

SpecEvents == InitEvents /\ [][NextEvents]_vars

\* ====================================================== board tracking
\* bound: clicks (moves and power-ups) of the players while the boards of
\* the browsers are compared with the room's board
MaxSyncClicks == 2

\* the power-ups the players pick here
SyncPowerUps == { "undo_move", "double_drop" }

\* a click on a column that the browser turns into a submitted move
ClientSyncMove ==
  /\ clicks < MaxSyncClicks
  /\ ClientMakeMove
  /\ last'.sent = TRUE

\* the player picks undo_move or double_drop
ClientSyncPowerUp ==
  \E p \in Players, k \in SyncPowerUps :
    /\ clicks < MaxSyncClicks
    /\ clicks' = clicks + 1
    /\ LET r == useGame_usePowerUp(client[p], socketOpen[p], k, InputTarget)
       IN /\ r.ret
          /\ client' = [ client EXCEPT ![p] = r.state ]
          /\ toServer' = [ toServer EXCEPT ![p] = Append(@, r.sent[1]) ]
          /\ last' = [ NoCall EXCEPT !.kind = "client_power_up", !.player = p,
                                     !.sent = r.ret ]
    /\ UNCHANGED << game, simVars, socketOpen, toClient, inventory, race, otherVars,
                    auxVars >>

NextSync ==
  \/ ClientSyncMove
  \/ ClientSyncPowerUp
  \/ ClientDispatch
  \/ CoordSubmitMove
  \/ CoordSubmitPowerUp

SpecSync == InitCoord /\ [][NextSync]_vars

\* ====================================================== webSocketService
\* bound: WebSocket objects the service creates
MaxSockets == 4

\* WebSocket.close() on socket i: an open or connecting socket starts to
\* close and its close event follows later; a closed one stays as it is
closeSocket(sockets, i, code) ==
  IF i = 0 \/ sockets[i].state \in { "closing", "closed" }
  THEN sockets
  ELSE [ sockets EXCEPT ![i] = [ state |-> "closing", code |-> code ] ]

\* connect(playerId): a new WebSocket becomes this.socket; the socket the
\* field held before is not closed
connect(w, playerId) ==
  [ w EXCEPT !.playerId = Some(playerId),
             !.sockets = Append(@, [ state |-> "connecting", code |-> 0 ]),
             !.socket = Len(w.sockets) + 1 ]

handleOpen(w) ==
  [ w EXCEPT !.reconnectAttempts = 0, !.isReconnecting = FALSE ]

\* attemptReconnect: the new service state and the notification it sends
attemptReconnect(w) ==
  IF w.isReconnecting
  THEN [ ws |-> w, notice |-> "" ]
  ELSE IF w.autoReconnect /\ w.reconnectAttempts < maxReconnectAttempts
  THEN [ ws |-> [ w EXCEPT !.isReconnecting = TRUE, !.timers = @ + 1 ],
         notice |-> "reconnecting" ]
  ELSE IF w.reconnectAttempts >= maxReconnectAttempts
  THEN [ ws |-> w, notice |-> "reconnect_failed" ]
  ELSE [ ws |-> w, notice |-> "" ]

\* handleClose: the notifications do not change the service; then
\* attemptReconnect
handleClose(w, code) == attemptReconnect(w)

\* the callback of the setTimeout of attemptReconnect
reconnectTimeout(w) ==
  LET w1 == [ w EXCEPT !.reconnectAttempts = @ + 1, !.timers = @ - 1 ]
  IN IF IsNull(w1.playerId) THEN w1 ELSE connect(w1, w1.playerId[1])

disconnect(w) ==
  [ w EXCEPT !.autoReconnect = FALSE,
             !.isReconnecting = FALSE,
             !.sockets = closeSocket(@, w.socket, 1000),
             !.socket = 0 ]

resetConnection(w) ==
  LET w1 == [ w EXCEPT !.sockets = closeSocket(@, w.socket, 1005),
                       !.socket = 0,
                       !.reconnectAttempts = 0,
                       !.isReconnecting = FALSE ]
  IN IF IsNull(w1.playerId) THEN w1 ELSE connect(w1, w1.playerId[1])

isConnected(w) == w.socket # 0 /\ w.sockets[w.socket].state = "open"

\* send: TRUE and nothing else on an open socket; otherwise FALSE and a
\* reconnect attempt unless one is running or auto-reconnect is off
serviceSend(w) ==
  IF isConnected(w)
  THEN [ ws |-> w, notice |-> "", ret |-> TRUE ]
  ELSE IF ~ w.isReconnecting /\ w.autoReconnect
  THEN [ ws |-> attemptReconnect(w).ws, notice |-> attemptReconnect(w).notice,
         ret |-> FALSE ]
  ELSE [ ws |-> w, notice |-> "", ret |-> FALSE ]

OpenSockets(w) == { i \in 1 .. Len(w.sockets) : w.sockets[i].state = "open" }

InitWs ==
  /\ game = createGameRoom(2)
  /\ clockLate = FALSE
  /\ rooms = 1
  /\ last = NoCall
  /\ winRecord = Null
  /\ NetIdle

wsRest == << game, simVars, coordVars, demoVars, lobbyVars, api >>

\* the useGame hook of a page mounts: its effect calls connect(playerId)
HookMount ==
  /\ ~ ws.mounted
  /\ Len(ws.sockets) < MaxSockets
  /\ ws' = [ connect(ws, PLAYER_IDS[1]) EXCEPT !.mounted = TRUE ]
  /\ last' = [ NoCall EXCEPT !.kind = "ws_mount" ]
  /\ UNCHANGED wsRest

\* the hook unmounts: the cleanup of the effect calls disconnect()
HookUnmount ==
  /\ ws.mounted
  /\ ws' = [ disconnect(ws) EXCEPT !.mounted = FALSE ]
  /\ last' = [ NoCall EXCEPT !.kind = "ws_unmount" ]
  /\ UNCHANGED wsRest

\* useGame.reconnect: resetConnection()
HookReconnect ==
  /\ ws.mounted
  /\ Len(ws.sockets) < MaxSockets
  /\ ws' = resetConnection(ws)
  /\ last' = [ NoCall EXCEPT !.kind = "ws_reset" ]
  /\ UNCHANGED wsRest

\* the hook sends a message (a move, request_time_update, ...)
HookSend ==
  /\ ws.mounted
  /\ LET r == serviceSend(ws)
     IN /\ ws' = r.ws
        /\ last' = [ NoCall EXCEPT !.kind = "ws_send", !.sent = r.ret,
                                   !.event = r.notice ]
  /\ UNCHANGED wsRest

\* the connection of socket i is established: its onopen runs
SocketOpens ==
  \E i \in 1 .. Len(ws.sockets) :
    /\ ws.sockets[i].state = "connecting"
    /\ ws' = handleOpen([ ws EXCEPT !.sockets[i].state = "open" ])
    /\ last' = [ NoCall EXCEPT !.kind = "ws_open", !.column = i ]
    /\ UNCHANGED wsRest

\* socket i fails to connect or loses its connection (code 1006): its
\* onclose runs
SocketDrops ==
  \E i \in 1 .. Len(ws.sockets) :
    /\ ws.sockets[i].state \in { "connecting", "open" }
    /\ LET r == handleClose([ ws EXCEPT !.sockets[i] = [ state |-> "closed", code |-> 1006 ] ],
                            1006)
       IN /\ ws' = r.ws
          /\ last' = [ NoCall EXCEPT !.kind = "ws_drop", !.column = i,
                                     !.event = r.notice ]
    /\ UNCHANGED wsRest

\* the close event of a socket the service closed itself: its onclose runs
SocketClosed ==
  \E i \in 1 .. Len(ws.sockets) :
    /\ ws.sockets[i].state = "closing"
    /\ LET r == handleClose([ ws EXCEPT !.sockets[i].state = "closed" ],
                            ws.sockets[i].code)
       IN /\ ws' = r.ws
          /\ last' = [ NoCall EXCEPT !.kind = "ws_closed", !.column = i,
                                     !.event = r.notice ]
    /\ UNCHANGED wsRest

\* a reconnect timeout expires
ReconnectTimer ==
  /\ ws.timers > 0
  /\ Len(ws.sockets) < MaxSockets
  /\ ws' = reconnectTimeout(ws)
  /\ last' = [ NoCall EXCEPT !.kind = "ws_timer" ]
  /\ UNCHANGED wsRest

NextWs ==
  \/ HookMount
  \/ HookUnmount
  \/ HookReconnect
  \/ HookSend
  \/ SocketOpens
  \/ SocketDrops
  \/ SocketClosed
  \/ ReconnectTimer

SpecWs == InitWs /\ [][NextWs]_vars

\* ============================================ the turn on the game page
\* bounds: moves and turn timeouts of the started room
MaxTurnMoves == 2
MaxTurnTimeouts == 1

\* the seat after the holder of current_turn, in seating order
nextTurn(r) ==
  LET seat == CHOOSE i \in 1 .. Len(r.players) : r.players[i].id = r.current_turn
  IN r.players[(seat % Len(r.players)) + 1].id

\* submit_move on the coordinator's room: the disc of the turn holder goes on
\* top of the column and the turn advances
roomSubmitMove(r, id, column) ==
  IF ~ r.is_active \/ r.current_turn # id \/ Len(r.board[column]) >= MaxRows
  THEN [ room |-> r, status |-> "rejected", row |-> 0 ]
  ELSE [ room |-> [ r EXCEPT !.board[column] = Append(@, id),
                             !.current_turn = nextTurn(r) ],
         status |-> "", row |-> Len(r.board[column]) ]

\* handle_turn_timeout on the coordinator's room
roomTimeout(r) == [ r EXCEPT !.current_turn = nextTurn(r) ]

\* the game pages of the two players of a started room have loaded the room
\* and initialised their boards
InitTurn ==
  /\ game = createGameRoom(2)
  /\ clockLate = FALSE
  /\ rooms = 1
  /\ last = NoCall
  /\ winRecord = Null
  /\ client = << >>
  /\ socketOpen = << >>
  /\ toServer = << >>
  /\ toClient = << >>
  /\ inventory = << >>
  /\ race = NoRace
  /\ clicks = 0
  /\ turnStart = 0
  /\ fired = {}
  /\ timeouts = 0
  /\ session = << >>
  /\ closes = 0
  /\ eventCounter = 0
  /\ room = startedRoom(handleCreateRoom(2, TRUE))
  /\ lobby = [ b \in Browsers |-> lobbyInitial ]
  /\ hook = [ b \in Browsers |->
                IF b \in { room.players[i].id : i \in 1 .. Len(room.players) }
                THEN Some([ useGame_updateRoom(useGameInitial, b, room)
                              EXCEPT !.board = initializeBoard ])
                ELSE Null ]
  /\ inbox = [ b \in Browsers |-> << >> ]
  /\ joins = 0
  /\ leaves = 0
  /\ ws = WebSocketService
  /\ api = NoRequest

\* the coordinator handles the move of the turn holder and tells the pages
TurnMove ==
  \E column \in InputCols :
    /\ clicks < MaxTurnMoves
    /\ room.is_active
    /\ room.players # << >>
    /\ LET r == roomSubmitMove(room, room.current_turn, column)
       IN /\ r.status = ""
          /\ room' = r.room
          /\ inbox' = pushOthers(inbox, hook, "",
                         [ NoMsg EXCEPT !.type = "move_made",
                                        !.player_id = room.current_turn,
                                        !.column = column, !.row = r.row,
                                        !.next_turn = r.room.current_turn ])
          /\ last' = [ NoCall EXCEPT !.kind = "room_move", !.player = room.current_turn,
                                     !.column = column ]
    /\ clicks' = clicks + 1
    /\ UNCHANGED << game, simVars, client, socketOpen, toServer, toClient, inventory,
                    race, otherVars, demoVars, wsVars, lobby, hook, joins, leaves >>

\* the turn timer of the room expires
TurnTimeout ==
  /\ timeouts < MaxTurnTimeouts
  /\ room.is_active
  /\ room.players # << >>
  /\ room' = roomTimeout(room)
  /\ inbox' = pushOthers(inbox, hook, "",
                 [ NoMsg EXCEPT !.type = "turn_timeout",
                                !.player_id = room.current_turn,
                                !.next_turn = room'.current_turn ])
  /\ timeouts' = timeouts + 1
  /\ last' = [ NoCall EXCEPT !.kind = "room_timeout", !.player = room.current_turn ]
  /\ UNCHANGED << game, simVars, client, socketOpen, toServer, toClient, inventory,
                  race, clicks, turnStart, fired, connVars, demoVars, wsVars,
                  lobby, hook, joins, leaves >>

NextTurn ==
  \/ TurnMove
  \/ TurnTimeout
  \/ PageDispatch
  \/ PageLoadRoom
  \/ PageLeave

SpecTurn == InitTurn /\ [][NextTurn]_vars

\* ============================================================ REST client
\* what fetch() does: the timeout aborts it, it rejects, or it resolves
FetchOutcomes == { "abort", "reject", "response" }

\* status codes of a response
StatusCodes == { 200, 204, 404, 500 }

\* the detail field of an error body (Null: no JSON body or no detail)
ErrorDetails == { Null, Some("Room not found") }

\* power_ups maps the server sends: remaining_uses of some of the kinds
ServerPowerUps ==
  UNION { [ K -> 0 .. 1 ] : K \in SUBSET { "double_drop", "undo_move" } }

\* response bodies: not JSON, the JSON value null, or an object whose
\* power_ups field is absent (Null) or a map
ResponseBodies ==
  { [ json |-> "invalid", power_ups |-> Null ],
    [ json |-> "null", power_ups |-> Null ],
    [ json |-> "object", power_ups |-> Null ] }
  \cup { [ json |-> "object", power_ups |-> Some(m) ] : m \in ServerPowerUps }

\* response.ok
ok(status) == status \in 200 .. 299

\* fetchWithTimeout: the response, or the error it throws
fetchWithTimeout(fetch, status, detail, body) ==
  IF fetch = "abort"
  THEN [ threw |-> "TimeoutError", message |-> "", body |-> Null ]
  ELSE IF fetch = "reject"
  THEN [ threw |-> "NetworkError", message |-> "Network error", body |-> Null ]
  ELSE IF ~ ok(status)
  THEN [ threw |-> "ApiError",
         message |-> IF IsNull(detail) THEN "statusText" ELSE detail[1],
         body |-> Null ]
  ELSE [ threw |-> "", message |-> "", body |-> Some(body) ]

\* the default power-ups of the catch block: the five kinds, 1 use each
defaultPowerUps == [ k \in Range(POWER_UP_TYPES) |-> 1 ]

\* getPlayerPowerUps: what it throws ("" if nothing) and what it returns
getPlayerPowerUpsRethrows(fetch, status, detail, body) ==
  LET response == fetchWithTimeout(fetch, status, detail, body)
  IN IF response.threw # ""
     THEN [ threw |-> response.threw, value |-> << >> ]
     ELSE IF response.body[1].json # "object"
     THEN [ threw |-> "", value |-> defaultPowerUps ]
     ELSE IF IsNull(response.body[1].power_ups)
     THEN [ threw |-> "", value |-> << >> ]
     ELSE [ threw |-> "", value |-> response.body[1].power_ups[1] ]

getPlayerPowerUps(fetch, status, detail, body) ==
  LET response == fetchWithTimeout(fetch, status, detail, body)
  IN IF response.threw # ""
     THEN [ threw |-> "", value |-> defaultPowerUps ]
     ELSE IF response.body[1].json # "object"
     THEN [ threw |-> "", value |-> defaultPowerUps ]
     ELSE IF IsNull(response.body[1].power_ups)
     THEN [ threw |-> "", value |-> << >> ]
     ELSE [ threw |-> "", value |-> response.body[1].power_ups[1] ]

InitApi ==
  /\ game = createGameRoom(2)
  /\ clockLate = FALSE
  /\ rooms = 1
  /\ last = NoCall
  /\ winRecord = Null
  /\ client = << >>
  /\ socketOpen = << >>
  /\ toServer = << >>
  /\ toClient = << >>
  /\ inventory = << >>
  /\ race = NoRace
  /\ clicks = 0
  /\ turnStart = 0
  /\ fired = {}
  /\ timeouts = 0
  /\ session = << >>
  /\ closes = 0
  /\ eventCounter = 0
  /\ room = << >>
  /\ lobby = << >>
  /\ hook = << >>
  /\ inbox = << >>
  /\ joins = 0
  /\ leaves = 0
  /\ ws = WebSocketService
  /\ \E fetch \in FetchOutcomes, status \in StatusCodes, detail \in ErrorDetails,
        body \in ResponseBodies :
       api = [ NoRequest EXCEPT !.fetch = fetch, !.status = status,
                                !.detail = detail, !.body = Some(body) ]

\* the page calls getPlayerPowerUps and the call settles
CallGetPlayerPowerUps ==
  /\ IsNull(api.result)
  /\ api' = [ api EXCEPT !.result =
               Some(getPlayerPowerUps(api.fetch, api.status, api.detail, api.body[1])) ]
  /\ last' = [ NoCall EXCEPT !.kind = "get_power_ups" ]
  /\ UNCHANGED << game, simVars, coordVars, demoVars, lobbyVars, ws >>

NextApi == CallGetPlayerPowerUps

SpecApi == InitApi /\ [][NextApi]_vars

\* =================================================================== claims
\* seat (1-based) of a player id in the seating order, and the next seat's id
SeatOf(g, id) == CHOOSE i \in 1 .. Len(g.players) : g.players[i] = id
NextSeated(g) == g.players[(SeatOf(g, g.currentTurn) % Len(g.players)) + 1]

\* a step of the event loop on this room (not the clock, not a stutter)
LoopStep == << game, last, winRecord, rooms >>' # << game, last, winRecord, rooms >>
MoveStep == LoopStep /\ last'.kind = "move"
PowerUpStep == LoopStep /\ last'.kind = "power_up"

\* owner of cell (c, r), "" when the cell is empty or off the board
Owner(b, c, r) ==
  IF c \in Cols /\ r >= 0 /\ r < Len(b[c]) THEN b[c][r + 1] ELSE ""

\* the four line directions as (dc, dr)
Direction(winType) ==
  CASE winType = "horizontal" -> << 1, 0 >>
    [] winType = "vertical" -> << 0, 1 >>
    [] winType = "diagonal_rising" -> << 1, 1 >>
    [] winType = "diagonal_falling" -> << 1, -1 >>

\* the 4 cells of the window of direction d that starts k cells before (c, r)
Window(c, r, d, k) ==
  { << c + (i - k) * d[1], r + (i - k) * d[2] >> : i \in 0 .. 3 }

\* windows of 4 same-owner cells through (c, r) in the direction of winType
WinningWindows(b, c, r, winType) ==
  { w \in { Window(c, r, Direction(winType), k) : k \in 0 .. 3 } :
      \A cell \in w : Owner(b, cell[1], cell[2]) = Owner(b, c, r) }

\* the cells the last call placed a disc in
PlacedCells(l) ==
  { << o[1].column, o[1].row >> :
      o \in { x \in { l.result, l.effect.drop1, l.effect.drop2 } : ~ IsNull(x) } }

\* ---- C1
\* C1: every column holds at most 6 discs in every reachable state, and a
\* makeMove into a column that holds 6 discs returns null and leaves that
\* column's discs as they were.
C1_ColumnCapacity ==
  /\ [](\A c \in Cols : Len(game.board[c]) <= MaxRows)
  /\ [][ (MoveStep /\ Len(game.board[last'.column]) >= MaxRows)
           => (IsNull(last'.result)
               /\ game'.board[last'.column] = game.board[last'.column]) ]_vars

C1_Witness ==
  /\ last.kind = "move"
  /\ IsNull(last.result)
  /\ Len(game.board[last.column]) = MaxRows

\* ---- C2
\* C2: every legal move and every power-up passes currentTurn from the player
\* in seat i to the player in seat (i + 1) mod N: nobody is skipped and nobody
\* keeps the turn.
C2_RoundRobin ==
  [][ ((MoveStep /\ ~ IsNull(last'.result)) \/ PowerUpStep)
        => game'.currentTurn = NextSeated(game) ]_vars

\* ---- C3
\* C3: double_drop places both discs or none: no state is reached in which
\* exactly one of drop1 and drop2 was placed.
C3_DoubleDropAllOrNothing ==
  (last.kind = "power_up" /\ last.powerUpId = "double_drop")
    => (IsNull(last.effect.drop1) <=> IsNull(last.effect.drop2))

\* ---- C4
\* steps of the coordinator and of a browser, told apart by the call recorded
CoordMoveStep == last'.kind = "submit_move" /\ toServer' # toServer
CoordPowerUpStep == last'.kind = "submit_power_up" /\ toServer' # toServer
ClientAttemptStep ==
  last'.kind \in { "client_move", "client_power_up" } /\ clicks' # clicks
DispatchStep == last'.kind = "dispatch" /\ toClient' # toClient

C5_WinDetectionComplete ==
  [][ \A cell \in PlacedCells(last), t \in Range(WIN_TYPES) :
        (WinningWindows(game.board, cell[1], cell[2], t) # {} /\ LoopStep)
          => /\ game'.gameOver
             /\ ~ IsNull(winRecord')
             /\ winRecord'[1].winner = Owner(game.board, cell[1], cell[2]) ]_vars

\* ---- C6
\* C6: a published game_over names 4 distinct cells inside the 7x6 board that
\* form a line in the direction of win_type (rising: row grows with the
\* column, falling: row shrinks) and all hold discs of the winner.
C6_WinReportSound ==
  ~ IsNull(winRecord) =>
    LET w == winRecord[1]
        d == Direction(w.winType)
        p == w.positions
    IN /\ Len(p) = 4
       /\ Cardinality(Range(p)) = 4
       /\ \A i \in 1 .. 4 : p[i][1] \in Cols /\ p[i][2] \in 0 .. (MaxRows - 1)
       /\ \A i \in 1 .. 3 : p[i + 1] = << p[i][1] + d[1], p[i][2] + d[2] >>
       /\ \A i \in 1 .. 4 : Owner(game.board, p[i][1], p[i][2]) = w.winner

\* ---- C7
\* C7: once the room's game is over, nothing changes the room (board,
\* currentTurn, gameOver flag) or the published winner any more.
C7_GameOverAbsorbing ==
  [][ game.gameOver => (game' = game /\ winRecord' = winRecord) ]_vars

C7_Witness ==
  /\ game.gameOver
  /\ ~ IsNull(winRecord)
  /\ rooms = 2
  /\ \E c \in Cols : Len(game.board[c]) > 0

\* ---- C8
\* C8: a power-up of any kind advances currentTurn exactly once, to the next
\* seated player.
C8_PowerUpAdvancesOnce ==
  [][ \A k \in Range(POWER_UP_TYPES) :
        (PowerUpStep /\ last'.powerUpId = k)
          => game'.currentTurn = NextSeated(game) ]_vars

\* ---- C9
\* C9: a move rejected because the column is full changes neither
\* currentTurn nor any column (nor anything else of the room).
C9_RejectedDropNoOp ==
  [][ (MoveStep /\ IsNull(last'.result))
        => (/\ game'.currentTurn = game.currentTurn
            /\ game'.board = game.board
            /\ game' = game) ]_vars

C9_Witness ==
  /\ last.kind = "move"
  /\ IsNull(last.result)
  /\ game.currentTurn = last.player
  /\ Len(game.board[last.column]) = MaxRows

\* ---- C10
\* C10: the coordinator refuses a move or a power-up of a player who does not
\* hold current_turn: the room (board, current_turn, every field) and the
\* inventories stay as they were, the requester alone gets an error message
\* and nothing is pushed to any other player. In the browser makeMove and
\* usePowerUp send nothing while isMyTurn is false, and handling an error
\* message changes the error field of that browser and nothing else.
C10_NonHolderRejected ==
  [][ /\ ((CoordMoveStep \/ CoordPowerUpStep) /\ last'.player # game.currentTurn)
          => /\ last'.error \in { "NotYourTurn", "NoUsesRemaining" }
             /\ CoordMoveStep => last'.error = "NotYourTurn"
             /\ game' = game
             /\ inventory' = inventory
             /\ client' = client
             /\ \A q \in Players \ { last'.player } : toClient'[q] = toClient[q]
             /\ Len(toClient'[last'.player]) = Len(toClient[last'.player]) + 1
             /\ toClient'[last'.player][Len(toClient'[last'.player])].type = "error"
      /\ (ClientAttemptStep /\ ~ client[last'.player].isMyTurn)
          => /\ toServer' = toServer
             /\ last'.sent = FALSE
             /\ game' = game
      /\ (DispatchStep /\ last'.event = "error")
          => /\ client' = [ client EXCEPT ![last'.player].error = client'[last'.player].error ]
             /\ ~ IsNull(client'[last'.player].error)
             /\ game' = game /\ inventory' = inventory /\ toServer' = toServer
    ]_vars

\* the coordinator has just refused a submission with NotYourTurn while a
\* browser shows its own refusal of a click made out of turn
C10_Witness ==
  /\ last.kind \in { "submit_move", "submit_power_up" }
  /\ last.error = "NotYourTurn"
  /\ last.player # game.currentTurn
  /\ \E q \in Players : /\ ~ client[q].isMyTurn
                        /\ client[q].error = Some("It's not your turn yet!")

\* a browser has handled an error message of the coordinator
C10_ErrorShown ==
  /\ last.kind = "dispatch"
  /\ last.event = "error"
  /\ client[last.player].error = Some("NotYourTurn")

\* ---- C11
TimeoutStep == last'.kind = "timeout" /\ fired' # fired

\* the timeout handled in this step, and whether its turn has moved on
HandledTimeout == CHOOSE t \in fired : t \notin fired'
Stale(t) == t.holder # game.currentTurn \/ t.start # turnStart

C11_TimeoutShown ==
  /\ last.kind = "dispatch"
  /\ last.event = "turn_timeout"
  /\ \E p \in Players : client[p].error = Some("Your turn timed out!")

\* ---- C12
\* C12: once a player whose connection dropped is connected again and has
\* loaded the room, and nothing pushed to that player waits to be handled,
\* the player's board is the 7 columns' current stacks and isMyTurn is the
\* room's current turn, whatever was broadcast while the connection was down.
C12_ReconnectSnapshot ==
  \A p \in Players :
    (/\ session[p] = "synced"
     /\ last.kind = "load_room" /\ last.player = p
     /\ socketOpen[p]
     /\ toClient[p] = << >>)
      => /\ ClientStacks(client[p]) = game.board
         /\ client[p].isMyTurn = (game.currentTurn = p)

\* ---- C13
BoardFull(b) == \A c \in Cols : Len(b[c]) = MaxRows
NoRunOf4(b) ==
  \A c \in Cols, r \in 0 .. (MaxRows - 1), t \in Range(WIN_TYPES) :
    WinningWindows(b, c, r, t) = {}

\* C13: a room whose 42 cells are all occupied with no 4 in a row of any
\* player is over, with the published winner "draw": a full board never
\* stays in progress.
C13_FullBoardIsDraw ==
  (BoardFull(game.board) /\ NoRunOf4(game.board))
    => /\ game.gameOver
       /\ ~ IsNull(winRecord)
       /\ winRecord[1].winner = "draw"

\* ---- C14
\* C14: a move that an infrastructure failure keeps from being applied does
\* not cost the player the turn. When the browser's send fails on a closed
\* socket (or the browser knows it is disconnected) nothing reaches the
\* coordinator, the room and the browser's board and isMyTurn stay as they
\* are and an error is shown; when the column's shard is unreachable the
\* room stays as it is and the requester gets an error; and a click of a
\* player whose turn it is, on an open connection, is sent.
C14_FailedMoveKeepsTurn ==
  [][ /\ (ClientAttemptStep /\ last'.kind = "client_move"
           /\ client[last'.player].isMyTurn
           /\ (~ socketOpen[last'.player] \/ ~ client[last'.player].isConnected))
          => /\ last'.sent = FALSE
             /\ toServer' = toServer
             /\ game' = game
             /\ client'[last'.player].isMyTurn
             /\ client'[last'.player].board = client[last'.player].board
             /\ ~ IsNull(client'[last'.player].error)
      /\ (CoordMoveStep /\ last'.error = "ShardUnavailable")
          => /\ game' = game
             /\ turnStart' = turnStart
             /\ client' = client
             /\ \A q \in Players \ { last'.player } : toClient'[q] = toClient[q]
             /\ socketOpen[last'.player]
                  => toClient'[last'.player][Len(toClient'[last'.player])].type = "error"
      /\ (ClientAttemptStep /\ last'.kind = "client_move"
           /\ client[last'.player].isMyTurn
           /\ socketOpen[last'.player] /\ client[last'.player].isConnected)
          => /\ last'.sent = TRUE
             /\ Len(toServer'[last'.player]) = Len(toServer[last'.player]) + 1
    ]_vars

\* the turn holder's click has just failed on a closed socket
C14_Witness ==
  /\ last.kind = "client_move"
  /\ last.sent = FALSE
  /\ ~ socketOpen[last.player]
  /\ game.currentTurn = last.player
  /\ client[last.player].isMyTurn
  /\ client[last.player].error = Some("Failed to send move. Please try again.")

\* ---- C15
\* C15: a successful drop of player P into a column that holds k < 6 discs
\* returns row k, puts exactly one disc of P on top of that column and
\* leaves the discs below it and the other six columns as they were; the
\* browser that handles the move_made message appends one cell with that
\* player, row and column to the same column of its board and leaves its
\* other columns as they were.
C15_DropFrame ==
  [][ /\ (CoordMoveStep /\ last'.error = "")
          => LET c == last'.column
                 k == Len(game.board[c])
             IN /\ k < MaxRows
                /\ last'.result = Some([ column |-> c, row |-> k ])
                /\ game'.board[c] = Append(game.board[c], last'.player)
                /\ game'.board[c][k + 1] = last'.player
                /\ \A d \in Cols \ { c } : game'.board[d] = game.board[d]
      /\ (DispatchStep /\ last'.event = "move_made")
          => LET m == toClient[last'.player][1]
                 key == toString(m.column)
                 old == client[last'.player].board
                 new == client'[last'.player].board
             IN /\ new[key] = Append(old[key], [ playerId |-> m.player_id,
                                                 row |-> m.row, column |-> m.column ])
                /\ \A d \in DOMAIN old \ { key } : new[d] = old[d]
                /\ DOMAIN new = DOMAIN old
    ]_vars

\* a browser has handled the move_made of a second disc of a column: the
\* cell on top has row 1
C15_Witness ==
  /\ last.kind = "dispatch"
  /\ last.event = "move_made"
  /\ \E key \in Range(COL_KEYS) :
       LET cells == client[last.player].board[key]
       IN /\ Len(cells) = 2
          /\ cells[1].row = 0
          /\ cells[2].row = 1
          /\ Len(game.board[parseInt(key)]) >= 2

\* ---- C16
JoinStep == last'.kind = "join_room"
SelectStep == last'.kind = "select_room"
PickStep == last'.kind = "pick_color"
StartStep == last'.kind = "start_game"
PageDispatchStep == last'.kind = "page_dispatch"
PlayerIds(r) == { r.players[i].id : i \in 1 .. Len(r.players) }

\* C16: a room never holds more players than its max_players, which is
\* between 2 and 4; no step adds a player to an active room; a join request
\* on a full or an active room fails and leaves the room as it is; and the
\* lobby opens the join dialog only on a room that is neither active nor
\* full in the list it shows.
C16_JoinNeverOverfills ==
  [][ /\ room'.max_players \in 2 .. 4
      /\ Len(room'.players) <= room'.max_players
      /\ room.is_active => PlayerIds(room') \subseteq PlayerIds(room)
      /\ (JoinStep /\ Len(room.players) = room.max_players)
          => /\ last'.error = "RoomFull"
             /\ room' = room
             /\ hook' = hook
      /\ (JoinStep /\ Len(room.players) < room.max_players /\ room.is_active)
          => /\ last'.error = "GameAlreadyStarted"
             /\ room' = room
             /\ hook' = hook
      /\ (JoinStep /\ last'.error = "")
          => /\ Len(room'.players) = Len(room.players) + 1
             /\ ~ room.is_active
             /\ ~ IsNull(hook'[last'.player])
      /\ SelectStep
          => LET shown == lobby'[last'.player].selectedRoom[1]
             IN /\ ~ shown.is_active
                /\ Len(shown.players) < shown.max_players
    ]_vars

\* a join request from a dialog opened before the room filled up has just
\* been refused with RoomFull
C16_Witness ==
  /\ last.kind = "join_room"
  /\ last.error = "RoomFull"
  /\ Len(room.players) = room.max_players
  /\ IsNull(hook[last.player])

\* a join request on a started room with a free seat has been refused
C16_StartedWitness ==
  /\ last.kind = "join_room"
  /\ last.error = "GameAlreadyStarted"
  /\ room.is_active

\* ---- C17
\* C17: start_game on a room with fewer than 2 players fails with
\* NotEnoughPlayers and leaves the room as it is, so a waiting room stays
\* inactive; a room becomes active only by a start_game that finds at least
\* 2 seated players; and the Start Game button is shown only to the first
\* player of a room whose copy in the browser has at least 2 players.
C17_StartNeedsTwoPlayers ==
  [][ /\ (StartStep /\ Len(room.players) < 2)
          => /\ last'.error = "NotEnoughPlayers"
             /\ room' = room
             /\ inbox' = inbox
      /\ (~ room.is_active /\ room'.is_active)
          => /\ StartStep
             /\ last'.error = ""
             /\ Len(room.players) >= 2
             /\ room'.players = room.players
      /\ StartStep
          => LET st == hook[last'.player][1]
             IN /\ Len(st.room[1].players) >= 2
                /\ st.room[1].players[1].id = last'.player
                /\ ~ st.room[1].is_active
    ]_vars

\* the first player clicked Start Game after the other player had left: the
\* room has one player, the request failed and the room is still waiting
C17_Witness ==
  /\ last.kind = "start_game"
  /\ last.error = "NotEnoughPlayers"
  /\ Len(room.players) = 1
  /\ ~ room.is_active

\* a game has been started with 2 seated players
C17_Started ==
  /\ last.kind = "start_game"
  /\ last.error = ""
  /\ room.is_active
  /\ Len(room.players) = 2

\* ---- C18
AllColumnsEmpty(b) == \A c \in Cols : b[c] = << >>

\* C18: right after a successful start_game the room is active, its
\* current_turn is the id of its first seated player and its 7 columns are
\* empty; a generated room is in that state too; and the browser that
\* handles game_started takes over the started room, sets isMyTurn by the
\* message's current_turn and holds a board of 7 empty columns whatever its
\* board was before.
C18_StartState ==
  [][ /\ (StartStep /\ last'.error = "")
          => /\ room'.is_active
             /\ room'.current_turn = room'.players[1].id
             /\ AllColumnsEmpty(room'.board)
             /\ DOMAIN room'.board = Cols
      /\ (PageDispatchStep /\ last'.event = "game_started")
          => LET m == inbox[last'.player][1]
                 st == hook'[last'.player][1]
             IN /\ st.room = m.room
                /\ st.room[1].is_active
                /\ st.room[1].current_turn = st.room[1].players[1].id
                /\ st.isMyTurn = (st.room[1].current_turn = last'.player)
                /\ DOMAIN st.board = Range(COL_KEYS)
                /\ \A k \in Range(COL_KEYS) : st.board[k] = << >>
      /\ \A n \in 2 .. 4 :
           /\ createGameRoom(n).isActive
           /\ createGameRoom(n).currentTurn = createGameRoom(n).players[1]
           /\ AllColumnsEmpty(createGameRoom(n).board)
    ]_vars

\* the browser of the first seated player has handled game_started: it is
\* its turn and its board, which had no columns, has 7 empty ones
C18_Witness ==
  /\ last.kind = "page_dispatch"
  /\ last.event = "game_started"
  /\ room.is_active
  /\ hook[last.player][1].isMyTurn
  /\ hook[last.player][1].board = initializeBoard
  /\ room.current_turn = last.player

\* ---- C19
Injective(f) == \A i, j \in DOMAIN f : i # j => f[i] # f[j]
ColorsOf(r) == [ i \in 1 .. Len(r.players) |-> r.players[i].color ]

\* C19: no two players of a room have the same color. A join that requests
\* a color a player of the room has fails with ColorUnavailable and changes
\* nothing; a successful join with a requested color gets that color, one
\* without gets the first color of the palette no player of the room has;
\* the join dialog offers only colors that no player has in the copy of the
\* room it shows; and the players of a generated room of 2 to 4 have
\* pairwise different colors.
C19_ColorsUnique ==
  [][ /\ Injective(ColorsOf(room'))
      /\ (JoinStep /\ last'.event # "" /\ last'.event \in usedColors(room.players))
          => /\ last'.error \in { "RoomFull", "GameAlreadyStarted", "ColorUnavailable" }
             /\ (Len(room.players) < room.max_players /\ ~ room.is_active)
                  => last'.error = "ColorUnavailable"
             /\ room' = room
      /\ (JoinStep /\ last'.error = "")
          => LET joined == room'.players[Len(room'.players)]
             IN /\ joined.id = last'.player
                /\ joined.color \notin usedColors(room.players)
                /\ last'.event # "" => joined.color = last'.event
                /\ last'.event = ""
                     => /\ joined.color \in Range(PLAYER_COLORS)
                        /\ \A i \in 1 .. Len(PLAYER_COLORS) :
                             PLAYER_COLORS[i] = joined.color
                               => \A j \in 1 .. (i - 1) :
                                    PLAYER_COLORS[j] \in usedColors(room.players)
      /\ (PickStep /\ last'.event # "")
          => /\ last'.event \in Range(LOBBY_COLORS)
             /\ last'.event \notin
                  usedColors(lobby[last'.player].selectedRoom[1].players)
      /\ \A n \in 2 .. 4 : Injective(roomColors(n))
    ]_vars

\* a join that asked for a color another player had taken meanwhile has
\* been refused
C19_Witness ==
  /\ last.kind = "join_room"
  /\ last.error = "ColorUnavailable"
  /\ last.event \in usedColors(room.players)
  /\ Len(room.players) < room.max_players

\* a join without a requested color got the first color, which the player
\* who left had freed, while the second color is taken
C19_FirstFreeWitness ==
  /\ last.kind = "join_room"
  /\ last.error = ""
  /\ last.event = ""
  /\ Len(room.players) = 2
  /\ room.players[1].color = PLAYER_COLORS[2]
  /\ room.players[2].color = PLAYER_COLORS[1]

\* ---- C20
\* C20: a power-up is never applied for a player who has no use of that kind
\* left. Every kind starts with DefaultUses = 1 use, so a player for whom a
\* kind has just been applied has none left, and the next event of the
\* simulation does not apply that kind for that player again.
C20_NoUseBeyondCount ==
  [][ ( /\ DefaultUses = 1
        /\ last.kind = "power_up"
        /\ last'.kind = "power_up"
        /\ game' # game
        /\ last'.player = last.player )
      => last'.powerUpId # last.powerUpId
    ]_vars

\* ---- C21
\* C21: after column_block has been applied to column c, a drop into c
\* before any turn advance is rejected and leaves the board and currentTurn
\* as they were.
C21_BlockedColumnRejectsDrop ==
  [][ ( /\ last.kind = "power_up"
        /\ last.powerUpId = "column_block"
        /\ last.effect.blocked
        /\ MoveStep
        /\ last'.column = last.effect.column[1] )
      => /\ IsNull(last'.result)
         /\ game'.board = game.board
         /\ game'.currentTurn = game.currentTurn
    ]_vars

\* ---- C22
\* C22: undo_move used by player P removes exactly one disc, the top disc of
\* the column P last dropped into. When P's previous event was a double drop
\* whose second disc went into column c and P uses undo_move next, the board
\* afterwards is the board before without the top disc of c.
C22_UndoTakesOwnLastDrop ==
  [][ ( /\ last.kind = "power_up"
        /\ last.powerUpId = "double_drop"
        /\ ~ IsNull(last.effect.drop2)
        /\ PowerUpStep
        /\ last'.powerUpId = "undo_move"
        /\ last'.player = last.player )
      => LET c == last.effect.drop2[1].column
         IN game'.board = [ game.board EXCEPT ![c] = SubSeq(@, 1, Len(@) - 1) ]
    ]_vars

\* ---- C23
\* C23: the undo of usePowerUp on an empty column reports nothing (the empty
\* effect) and changes no column; on a column with discs it removes the top
\* disc only: the discs below keep their order and rows and the other
\* columns are as they were.
C23_UndoFrame ==
  [][ (PowerUpStep /\ last'.powerUpId = "undo_move")
      => IF last'.effect.undone
         THEN LET c == last'.effect.column[1]
              IN /\ Len(game.board[c]) > 0
                 /\ Len(game'.board[c]) = Len(game.board[c]) - 1
                 /\ \A i \in 1 .. Len(game'.board[c]) :
                      game'.board[c][i] = game.board[c][i]
                 /\ \A d \in Cols \ { c } : game'.board[d] = game.board[d]
         ELSE /\ game'.board = game.board
              /\ last'.effect = NoEffect
              /\ \E c \in InputCols : game.board[c] = << >>
    ]_vars

\* an undo has just taken the top disc off a column that held discs of both
\* players; the disc below is still there
C23_Witness ==
  /\ last.kind = "power_up"
  /\ last.powerUpId = "undo_move"
  /\ last.effect.undone
  /\ Len(game.board[last.effect.column[1]]) >= 1

\* an undo has just found its column empty
C23_EmptyWitness ==
  /\ last.kind = "power_up"
  /\ last.powerUpId = "undo_move"
  /\ ~ last.effect.undone
  /\ TotalDiscs(game) >= 1

\* ---- C24
BombMsg(p, c) ==
  [ NoMsg EXCEPT !.type = "power_up_used", !.player_id = p,
                 !.power_up_id = "column_bomb",
                 !.effect = [ NoEffect EXCEPT !.bombed = TRUE, !.column = Some(c) ] ]
BombOnce(g, c) == usePowerUp(g, g.currentTurn, "column_bomb", c, c, c, c).game

\* C24: a column bomb empties its column whatever it held and changes no
\* other column, on the room's board and on the board of a browser that
\* handles the power_up_used message; and bombing the same column a second
\* time gives the board the first bomb gave, on both.
C24_BombEmptiesColumn ==
  [][ /\ (CoordPowerUpStep /\ last'.error = "" /\ last'.powerUpId = "column_bomb")
          => /\ last'.effect.bombed
             /\ game'.board = [ game.board EXCEPT ![last'.effect.column[1]] = << >> ]
      /\ (DispatchStep /\ last'.event = "power_up_used"
           /\ toClient[last'.player][1].effect.bombed)
          => LET key == toString(toClient[last'.player][1].effect.column[1])
             IN client'[last'.player].board =
                  [ client[last'.player].board EXCEPT ![key] = << >> ]
      /\ \A c \in Cols :
           /\ BombOnce(game', c).board = [ game'.board EXCEPT ![c] = << >> ]
           /\ BombOnce(BombOnce(game', c), c).board = BombOnce(game', c).board
      /\ \A q \in Players, c \in Cols :
           LET once == on_power_up_used(client'[q], q, BombMsg(q, c))
           IN /\ once.board = [ client'[q].board EXCEPT ![toString(c)] = << >> ]
              /\ on_power_up_used(once, q, BombMsg(q, c)).board = once.board
    ]_vars

\* a browser has handled the bomb that took the only disc played so far: one
\* bomb was used, one move was made, and the room's board and the browser's
\* board are empty
C24_Witness ==
  /\ last.kind = "dispatch"
  /\ last.event = "power_up_used"
  /\ toClient[last.player] = << >>
  /\ game.eventCount = 2
  /\ \E q \in Players : inventory[q]["column_bomb"] = 0
  /\ \A q \in Players : /\ inventory[q]["double_drop"] = DefaultUses
                         /\ inventory[q]["gravity_flip"] = DefaultUses
  /\ TotalDiscs(game) = 0
  /\ \A k \in Range(COL_KEYS) : client[last.player].board[k] = << >>
  /\ game.currentTurn # PLAYER_IDS[1]

\* ---- C25
FlipMsg(p) ==
  [ NoMsg EXCEPT !.type = "power_up_used", !.player_id = p,
                 !.power_up_id = "gravity_flip",
                 !.effect = [ NoEffect EXCEPT !.flipped = TRUE ] ]

C26_EventsExpire ==
  [][ (DispatchStep /\ last'.event = "move_made")
      => \A e \in Range(client[last'.player].activeEvents) :
           e.duration = 1 => e \notin Range(client'[last'.player].activeEvents)
    ]_vars

\* ---- C27
RandomEventInFlight ==
  \E q \in Players : \E i \in 1 .. Len(toClient[q]) : toClient[q][i].type = "random_event"

TickStep == last'.kind = "random_event" /\ game' # game

\* C28: triggering a random event changes no column of the room and not its
\* currentTurn or players; it yields the event and the affected columns,
\* which go to the players as they are. The browser that handles the
\* random_event message adds the event to its active events and keeps its
\* board and isMyTurn.
C28_RandomEventFrame ==
  [][ /\ TickStep
          => /\ game'.board = game.board
             /\ game'.currentTurn = game.currentTurn
             /\ game'.players = game.players
             /\ client' = client
             /\ \A q \in Players :
                  LET m == toClient'[q][Len(toClient'[q])]
                  IN /\ Len(toClient'[q]) = Len(toClient[q]) + 1
                     /\ m.type = "random_event"
                     /\ m.event[1].id = last'.event
                     /\ m.effect_result.affected_columns = last'.affected
      /\ (DispatchStep /\ last'.event = "random_event")
          => LET m == toClient[last'.player][1]
                 old == client[last'.player]
                 new == client'[last'.player]
             IN /\ new.board = old.board
                /\ new.isMyTurn = old.isMyTurn
                /\ Len(new.activeEvents) = Len(old.activeEvents) + 1
                /\ new.activeEvents[Len(new.activeEvents)].id = m.event[1].id
                /\ game' = game
    ]_vars

\* a browser whose board shows the disc of column 0 has handled a random
\* event and still shows the disc
C28_Witness ==
  /\ last.kind = "dispatch"
  /\ last.event = "random_event"
  /\ Len(client[last.player].activeEvents) = 1
  /\ Len(client[last.player].board["0"]) = 1
  /\ Len(game.board[0]) = 1
  /\ game.currentTurn = PLAYER_IDS[2]

\* ---- C29
LeaveStep == last'.kind = "leave" /\ leaves' # leaves
Without(g, id) == [ g EXCEPT !.players = SelectSeq(@, LAMBDA q : q # id) ]

\* C29: the current_turn of a started room that has players is the id of one
\* of them. A leave takes the leaver out of the players, keeps the others in
\* their order, keeps the room active and its board, and keeps current_turn
\* unless the leaver held it. The browser that handles player_left drops the
\* leaver from its copy of the room, takes over the message's current_turn
\* and sets isMyTurn by it, and keeps the copy active and its board.
\* getNextPlayer on a rotation from which the turn holder or
\* another player was removed returns a player of the rotation.
C29_TurnHolderIsSeated ==
  [][ /\ (room'.is_active /\ room'.players # << >>)
          => room'.current_turn \in PlayerIds(room')
      /\ LeaveStep
          => /\ room'.players = SelectSeq(room.players, LAMBDA q : q.id # last'.player)
             /\ last'.player \in PlayerIds(room)
             /\ room'.is_active = room.is_active
             /\ room'.board = room.board
             /\ (room.is_active /\ room.current_turn # last'.player)
                  => room'.current_turn = room.current_turn
      /\ (PageDispatchStep /\ last'.event = "player_left")
          => LET m == inbox[last'.player][1]
                 old == hook[last'.player][1]
                 new == hook'[last'.player][1]
             IN ~ IsNull(old.room)
                  => /\ new.room[1].players
                          = SelectSeq(old.room[1].players, LAMBDA q : q.id # m.player_id)
                     /\ new.room[1].current_turn = m.current_turn
                     /\ new.isMyTurn = (m.current_turn = last'.player)
                     /\ new.room[1].is_active = old.room[1].is_active
                     /\ new.board = old.board
      /\ \A n \in 2 .. 4 :
           \A holder \in Range(createGameRoom(n).players) :
             \A id \in Range(createGameRoom(n).players) :
               LET g == Without([ createGameRoom(n) EXCEPT !.currentTurn = holder ], id)
               IN getNextPlayer(g) \in Range(g.players)
    ]_vars

\* the player who held the turn of a started game has just left: the other
\* player, whose copy of the room still shows the leaver's turn, holds the
\* turn of the room
C29_Witness ==
  /\ last.kind = "leave"
  /\ room.is_active
  /\ Len(room.players) = 1
  /\ \E q \in Browsers :
       /\ room.current_turn = q
       /\ ~ IsNull(hook[q])
       /\ ~ IsNull(hook[q][1].room)
       /\ hook[q][1].room[1].is_active
       /\ hook[q][1].room[1].current_turn = last.player
       /\ ~ hook[q][1].isMyTurn

\* the remaining player's browser has handled player_left and has the turn
C29_Shown ==
  /\ last.kind = "page_dispatch"
  /\ last.event = "player_left"
  /\ room.is_active
  /\ hook[last.player][1].isMyTurn
  /\ hook[last.player][1].room[1].is_active
  /\ hook[last.player][1].room[1].current_turn = last.player
  /\ Len(hook[last.player][1].room[1].players) = 1
  /\ room.current_turn = last.player

\* ---- C30
\* C30: a timeout handled for the holder of the running turn passes the turn
\* to the next seated player and changes nothing else of the game: every
\* column, the players and every player's power-up inventory are as before,
\* and each connected player is sent turn_timeout with the new holder. The
\* browser that handles turn_timeout keeps its board and its power-ups and
\* sets isMyTurn by the message's next_turn.
C30_TimeoutPlacesNoDisc ==
  [][ /\ (TimeoutStep /\ last'.sent)
          => /\ HandledTimeout.holder = game.currentTurn
             /\ game'.currentTurn = NextSeated(game)
             /\ game'.currentTurn # game.currentTurn
             /\ \A c \in Cols : game'.board[c] = game.board[c]
             /\ game'.players = game.players
             /\ inventory' = inventory
             /\ client' = client
             /\ \A q \in Players :
                  socketOpen[q]
                    => LET m == toClient'[q][Len(toClient'[q])]
                       IN /\ Len(toClient'[q]) = Len(toClient[q]) + 1
                          /\ m.type = "turn_timeout"
                          /\ m.player_id = game.currentTurn
                          /\ m.next_turn = game'.currentTurn
      /\ (DispatchStep /\ last'.event = "turn_timeout")
          => LET m == toClient[last'.player][1]
                 old == client[last'.player]
                 new == client'[last'.player]
             IN /\ new.board = old.board
                /\ new.powerUps = old.powerUps
                /\ new.isMyTurn = (m.next_turn = last'.player)
                /\ game' = game
                /\ inventory' = inventory
    ]_vars

\* the browser of the player who got the turn by the timeout has handled
\* turn_timeout: it shows the disc played before and all its power-ups
C30_Witness ==
  /\ last.kind = "dispatch"
  /\ last.event = "turn_timeout"
  /\ client[last.player].isMyTurn
  /\ game.currentTurn = last.player
  /\ TotalDiscs(game) = 1
  /\ \E k \in Range(COL_KEYS) : Len(client[last.player].board[k]) = 1
  /\ \A k \in DOMAIN client[last.player].powerUps :
       client[last.player].powerUps[k] = DefaultUses

\* ---- C31
\* C31: the board of a connected browser that has handled every message
\* pushed to it is the room's board: each of the 7 columns of the browser
\* holds the discs of the room's column, in order, after moves and after
\* power-ups (undo_move and double_drop among them).
C31_ClientBoardTracks ==
  \A p \in Players :
    (socketOpen[p] /\ toClient[p] = << >>)
      => ClientStacks(client[p]) = game.board

\* ---- C32
AttemptPending(w) ==
  \/ w.timers > 0
  \/ \E i \in 1 .. Len(w.sockets) : w.sockets[i].state = "connecting"

\* C32: while the service is reconnecting an attempt is pending: a
\* reconnect timeout is scheduled or a socket of the service is still
\* connecting. The service is never left with isReconnecting = true,
\* no timeout scheduled and no connection being established.
C32_ReconnectingKeepsTrying ==
  ws.isReconnecting => AttemptPending(ws)

\* ---- C34
\* C34: from disconnect() (the hook's cleanup) until the next connect() or
\* resetConnection() of a hook the service creates no socket: no step taken
\* while no hook is mounted adds a WebSocket, also not the expiry of a
\* reconnect timeout scheduled before the disconnect.
C34_NoSocketAfterDisconnect ==
  [][ (~ ws.mounted /\ ~ ws'.mounted)
      => Len(ws'.sockets) = Len(ws.sockets)
    ]_vars

\* ---- C35
\* C35: at most one of the sockets the service created is open at any time.
C35_AtMostOneOpenSocket ==
  Cardinality(OpenSockets(ws)) <= 1

\* ---- C36
\* C36: while a hook is mounted (the connection was started with connect()),
\* an abnormal close of the service's current socket that finds no reconnect
\* running and fewer than maxReconnectAttempts attempts made schedules a
\* reconnect attempt, also after an earlier disconnect().
C36_AutoReconnectInForce ==
  [][ ( /\ last'.kind = "ws_drop"
        /\ ws.mounted
        /\ last'.column = ws.socket
        /\ ~ ws.isReconnecting
        /\ ws.reconnectAttempts < maxReconnectAttempts )
      => /\ ws'.isReconnecting
         /\ ws'.timers = ws.timers + 1
         /\ last'.event = "reconnecting"
    ]_vars

\* ---- C37
\* C37: the players of the room a browser holds have pairwise different
\* ids, whatever the order in which the browser loads the room and handles
\* player_joined and player_left.
C37_ClientPlayersUnique ==
  \A b \in Browsers :
    (~ IsNull(hook[b]) /\ ~ IsNull(hook[b][1].room))
      => \A i, j \in 1 .. Len(hook[b][1].room[1].players) :
           i # j => hook[b][1].room[1].players[i].id # hook[b][1].room[1].players[j].id

\* ---- C33
\* C33: in every state of a game page that has a room, isMyTurn is true
\* exactly when the current_turn of that room is the id of the page's player.
C33_TurnFlagAgrees ==
  \A b \in Browsers :
    (~ IsNull(hook[b]) /\ ~ IsNull(hook[b][1].room))
      => (hook[b][1].isMyTurn <=> hook[b][1].room[1].current_turn = b)

\* ---- C38
RequestFails(a) ==
  \/ a.fetch # "response"
  \/ ~ (a.status \in 200 .. 299)
  \/ a.body[1].json # "object"

C38_ServerMap ==
  /\ ~ IsNull(api.result)
  /\ api.fetch = "response"
  /\ api.status = 200
  /\ ~ IsNull(api.body[1].power_ups)
  /\ DOMAIN api.body[1].power_ups[1] = { "double_drop", "undo_move" }
  /\ api.result[1].value = api.body[1].power_ups[1]
  /\ api.result[1].value # defaultPowerUps

====
